---- MODULE Spec2Model ----
(***************************************************************************)
(* The transaction-request pipeline of src/src/exodus/rpctx.cpp: every RPC *)
(* handler validates its request against the ledger, encodes a payload,    *)
(* asks WalletTxBuilder to build (and, with autoCommit, broadcast) the     *)
(* transaction and then records its pending effect.  A handler invocation  *)
(* is a thread t; the ledger, the wallet's sigma mints, the pending table, *)
(* the global fee rate payTxFee and the locks cs_main / cs_wallet are      *)
(* shared by all threads.                                                  *)
(***************************************************************************)
EXTENDS Integers, Sequences, FiniteSets, TLC

\* ------------------------------------------------------------------ bounds
NumThreads == 2      \* RPC worker threads of the concurrent specification
MaxCalls == 1        \* handler invocations in one behaviour of Spec
MaxConcCalls == 2    \* handler invocations in one behaviour of SpecConc
MaxOfferChanges == 1 \* ledger updates of the exchange offers in one behaviour

Threads == 1..NumThreads
Addresses == {"a1", "a2"}
OK == "ok"

\* ------------------------------------------------------------ the ledger
\* Amounts of tokens are int64_t.  They are counted here in units of 2^33, so
\* that the largest of them, 2^63 - 1, is INT64_MAX units and a sum beyond it
\* is still a number of the model.
INT64_MAX == 1073741823

\* Property table.  1 and 2 are the primary tokens of the main and the test
\* ecosystem; 3 is a managed property with the sigma feature and three
\* denominations, the second of which has only 3 confirmations and the third
\* of which is worth more than half of INT64_MAX; 4 is an active crowdsale.
\* Every other identifier does not exist.
my_sps ==
    [p \in {1, 2, 3, 4} |->
        CASE p = 1 -> [eco |-> 1, managed |-> FALSE, crowdsale |-> FALSE, issuer |-> "a2",
                       sigma |-> FALSE, denominations |-> <<>>, confirms |-> <<>>]
          [] p = 2 -> [eco |-> 2, managed |-> FALSE, crowdsale |-> FALSE, issuer |-> "a2",
                       sigma |-> FALSE, denominations |-> <<>>, confirms |-> <<>>]
          [] p = 3 -> [eco |-> 1, managed |-> TRUE, crowdsale |-> FALSE, issuer |-> "a1",
                       sigma |-> TRUE, denominations |-> <<10, 20, 536870912>>,
                       confirms |-> <<6, 3, 6>>]
          [] p = 4 -> [eco |-> 1, managed |-> FALSE, crowdsale |-> TRUE, issuer |-> "a1",
                       sigma |-> TRUE, denominations |-> <<10>>, confirms |-> <<6>>]]

IsPropertyIdValid(p) == p \in DOMAIN my_sps

getMPbalance(a, p) ==
    CASE a = "a1" /\ p \in {1, 2} -> 5
      [] a = "a1" /\ p = 3 -> 50
      [] a = "a2" /\ p = 1 -> 1
      [] OTHER -> 0

SaneReferenceLimit == 1000000

\* An exchange offer, or NoOffer.
NoOffer == [minFee |-> 0, window |-> 0, live |-> FALSE]
Offer(fee, win) == [NoOffer EXCEPT !.minFee = fee, !.window = win, !.live = TRUE]
OfferKeys == {<<"a1", 1>>, <<"a2", 1>>}
DEx_getOffer(off, a, p) == IF <<a, p>> \in DOMAIN off THEN off[<<a, p>>] ELSE NoOffer

\* ---------------------------------------------------- precondition checks
\* Each check yields OK or the error it raises.
RequireExistingProperty(p) ==
    IF IsPropertyIdValid(p) THEN OK ELSE "Property identifier does not exist"

RequireBalance(a, p, amount) ==
    IF getMPbalance(a, p) < amount THEN "Sender has insufficient balance" ELSE OK

RequireSaneReferenceAmount(amount) ==
    IF amount > SaneReferenceLimit THEN "Reference amount higher is than 0.01 BTC" ELSE OK

RequirePrimaryToken(p) ==
    IF p \in {1, 2} THEN OK ELSE "Property identifier must be 1 (EXODUS) or 2 (TEXODUS)"

RequireManagedProperty(p) ==
    IF IsPropertyIdValid(p) /\ my_sps[p].managed THEN OK
    ELSE "Property identifier does not refer to a managed property"

RequireTokenIssuer(a, p) ==
    IF IsPropertyIdValid(p) /\ my_sps[p].issuer = a THEN OK
    ELSE "Sender is not authorized to manage the property"

RequireCrowdsale(p) ==
    IF IsPropertyIdValid(p) /\ my_sps[p].crowdsale THEN OK
    ELSE "Property identifier does not refer to a crowdsale"

RequireActiveCrowdsale(p) ==
    IF IsPropertyIdValid(p) /\ my_sps[p].crowdsale THEN OK
    ELSE "Property identifier does not refer to an active crowdsale"

isMainEcosystemProperty(p) == p # 2
isTestEcosystemProperty(p) == p = 2

RequireSameEcosystem(p, q) ==
    IF isMainEcosystemProperty(p) = isMainEcosystemProperty(q) THEN OK
    ELSE "Properties must be in the same ecosystem"

RequireDifferentIds(p, q) ==
    IF p = q THEN "Property identifiers must not be the same" ELSE OK

RequirePropertyName(name) ==
    IF name = "" THEN "Property name must not be empty" ELSE OK

RequireSigma(p) ==
    IF IsPropertyIdValid(p) /\ my_sps[p].sigma THEN OK
    ELSE "Property has not enabled Sigma"

RequireExistingDenomination(p, d) ==
    IF IsPropertyIdValid(p) /\ d + 1 \in DOMAIN my_sps[p].denominations THEN OK
    ELSE "Denomination is not valid"

RequireNoOtherDExOffer(off, a, p) ==
    IF DEx_getOffer(off, a, p).live THEN "Another active sell offer from the given address already exists on the distributed exchange"
    ELSE OK

RequireMatchingDExOffer(off, a, p) ==
    IF DEx_getOffer(off, a, p).live THEN OK
    ELSE "No matching sell offer on the distributed exchange"

RequireSaneDExFee(off, a, p) ==
    IF DEx_getOffer(off, a, p).minFee > SaneReferenceLimit THEN "Minimum accept fee is higher than 0.01 BTC (use override = true to continue)"
    ELSE OK

RequireSaneDExPaymentWindow(off, a, p) ==
    IF DEx_getOffer(off, a, p).live /\ DEx_getOffer(off, a, p).window < 10 THEN "Payment window is less than 10 blocks (use override = true to continue)"
    ELSE OK

\* The checks of a handler run in order and the first failing one is thrown.
RECURSIVE FirstFailure(_)
FirstFailure(checks) ==
    IF checks = <<>> THEN OK
    ELSE IF Head(checks) # OK THEN Head(checks)
    ELSE FirstFailure(Tail(checks))

\* ------------------------------------------------------------------ state
VARIABLES
    pc,          \* where each thread's invocation stands
    req,         \* the parsed parameters of the invocation
    loc,         \* the handler's local variables
    out,         \* what the invocation returned or threw
    log,         \* the calls the invocation made on its collaborators, in order
    pending,     \* the pending table (PendingAdd)
    mintStore,   \* the wallet's sigma mints
    nextKey,     \* the next mint public key the wallet generates
    txCount,     \* transactions committed so far; the next txid is txCount + 1
    payTxFee,    \* the global fee rate
    overrideBy,  \* the thread between its override and its restore of payTxFee, or 0
    offers,      \* the exchange offers of the ledger
    cs_main,     \* owner of cs_main, or 0
    cs_wallet,   \* owner of pwalletMain->cs_wallet, or 0
    autoCommit,  \* the global autoCommit flag
    budget,      \* invocations that may still start
    changes,     \* ledger updates of the offers that may still happen
    seen         \* the mints a reader of the wallet's store has come across

\* pc[t] is 0 when thread t is idle, -1 when its invocation has ended, and
\* otherwise the index of the handler's next statement in Steps(req[t].kind).
vars == <<pc, req, loc, out, log, pending, mintStore, nextKey, txCount, payTxFee,
          overrideBy, offers, cs_main, cs_wallet, autoCommit, budget, changes, seen>>

\* A request: the parameters of every handler, those a handler lacks at their defaults.
NoReq == [kind |-> "none", from |-> "", to |-> "", prop |-> 0, desired |-> 0, amount |-> 0,
          ref |-> 0, ecosystem |-> 0, action |-> 0, name |-> "", sigma |-> -1,
          featureId |-> 0, alertType |-> 0, expiryHigh |-> 0, expiryLow |-> 0, value |-> 0,
          override |-> FALSE, denominations |-> << >>, minConfirms |-> 0,
          denomination |-> 0, supplied |-> <<0, 0, 0, 0>>,
          params |-> << >>, values |-> << >>]
NoOut == [kind |-> "none", stage |-> "", code |-> "", txid |-> 0]
\* A payload: the transaction type and the numbers encoded after it.
NoPayload == [type |-> "", args |-> << >>]
NoLoc == [nMinimumAcceptFee |-> 0, payTxFeeOriginal |-> 0, feeBefore |-> 0, exitFee |-> 0,
          checked |-> NoOffer, used |-> NoOffer, ids |-> <<>>, todo |-> <<>>,
          mint |-> 0, amount |-> 0, result |-> 0,
          entryPending |-> {}, entryMints |-> {}, entryFee |-> 0,
          mints |-> << >>, payload |-> NoPayload]
CreatePayload(type, args) == [NoPayload EXCEPT !.type = type, !.args = args]

NoEv == [op |-> "", a |-> 0, b |-> 0, c |-> 0]
Ev(op, a, b, c) == [NoEv EXCEPT !.op = op, !.a = a, !.b = b, !.c = c]
Ops(l, op) == SelectSeq(l, LAMBDA e : e.op = op)

DefaultFee == 10

NoMint == [key |-> 0, property |-> 0, denomination |-> 0, used |-> FALSE, tx |-> 0]
Mint(k, p, d) == [NoMint EXCEPT !.key = k, !.property = p, !.denomination = d]
InitialStores == {{}, {Mint(1, 3, 0)}}

InitialOffers ==
    [k \in OfferKeys |-> IF k = <<"a1", 1>> THEN Offer(5000, 20) ELSE Offer(2000000, 5)]

InitCommon ==
    /\ pc = [t \in Threads |-> 0]
    /\ req = [t \in Threads |-> NoReq]
    /\ loc = [t \in Threads |-> NoLoc]
    /\ out = [t \in Threads |-> NoOut]
    /\ log = [t \in Threads |-> <<>>]
    /\ pending = {}
    /\ mintStore \in InitialStores
    /\ nextKey = 2
    /\ txCount = 0
    /\ payTxFee = DefaultFee
    /\ overrideBy = 0
    /\ offers = InitialOffers
    /\ cs_main = 0
    /\ cs_wallet = 0
    /\ autoCommit \in BOOLEAN
    /\ seen = {}

Init == InitCommon /\ budget = MaxCalls /\ changes = 0

InitConc ==
    /\ InitCommon
    /\ mintStore = {}
    /\ autoCommit
    /\ budget = MaxConcCalls
    /\ changes = MaxOfferChanges

\* ------------------------------------------------------- the handlers
\* An invocation enters its handler with the parsed request r.  The pending
\* set, the mint store and the fee rate it finds are remembered for comparison.
Enter(t, r) ==
    /\ pc[t] = 0
    /\ budget > 0
    /\ budget' = budget - 1
    /\ pc' = [pc EXCEPT ![t] = 1]
    /\ req' = [req EXCEPT ![t] = r]
    /\ loc' = [loc EXCEPT ![t].entryPending = pending, ![t].entryMints = mintStore,
                          ![t].entryFee = payTxFee]
    /\ UNCHANGED <<out, log, pending, mintStore, nextKey, txCount, payTxFee,
                   overrideBy, offers, cs_main, cs_wallet, autoCommit, seen, changes>>

\* Sample inputs: a reference amount within and beyond the sane limit; 9 is no property.
ReferenceAmounts == {0, 2000000}
NoProperty == 9

exodus_sendrawtx(t) ==
    \E from \in Addresses :
        Enter(t, [NoReq EXCEPT !.kind = "exodus_sendrawtx", !.from = from])

exodus_send(t) ==
    \E from \in Addresses, prop \in {1, NoProperty}, ref \in ReferenceAmounts :
        Enter(t, [NoReq EXCEPT !.kind = "exodus_send", !.from = from, !.to = "a2",
                  !.prop = prop, !.amount = 5, !.ref = ref])

exodus_send_checks_balance_first(r) ==
    << RequireBalance(r.from, r.prop, r.amount),
       RequireExistingProperty(r.prop),
       RequireSaneReferenceAmount(r.ref) >>

exodus_send_checks(r) ==
    << RequireExistingProperty(r.prop),
       RequireBalance(r.from, r.prop, r.amount),
       RequireSaneReferenceAmount(r.ref) >>

exodus_sendall(t) ==
    \E from \in Addresses, ref \in ReferenceAmounts :
        Enter(t, [NoReq EXCEPT !.kind = "exodus_sendall", !.from = from, !.to = "a2",
                  !.ecosystem = 1, !.ref = ref])

exodus_sendall_checks(r) == << RequireSaneReferenceAmount(r.ref) >>

CMPTransaction_NEW == 1
CMPTransaction_UPDATE == 2
CMPTransaction_CANCEL == 3

exodus_senddexsell_conversions_of_any_action(action, supplied) == supplied

\* amountForSale, amountDesired, paymentWindow and minAcceptFee: parsed from
\* the supplied parameters only for CMPTransaction_NEW and
\* CMPTransaction_UPDATE; a CMPTransaction_CANCEL keeps them 0.
exodus_senddexsell_conversions(action, supplied) ==
    IF action <= CMPTransaction_UPDATE THEN supplied ELSE <<0, 0, 0, 0>>

exodus_senddexsell(t) ==
    \E from \in Addresses, prop \in {1, 2, 3}, amount \in {1, 5}, action \in {CMPTransaction_NEW, CMPTransaction_UPDATE, CMPTransaction_CANCEL} :
        Enter(t, [NoReq EXCEPT !.kind = "exodus_senddexsell", !.from = from, !.prop = prop,
                  !.supplied = <<amount, 2, 10, 1>>,
                  !.amount = exodus_senddexsell_conversions(action, <<amount, 2, 10, 1>>)[1],
                  !.action = action])

exodus_senddexsell_checks_new_unguarded(r, off) ==
    CASE r.action = CMPTransaction_NEW ->
            << RequirePrimaryToken(r.prop),
               RequireBalance(r.from, r.prop, r.amount) >>
      [] r.action = CMPTransaction_UPDATE ->
            << RequirePrimaryToken(r.prop),
               RequireBalance(r.from, r.prop, r.amount),
               RequireMatchingDExOffer(off, r.from, r.prop) >>
      [] r.action = CMPTransaction_CANCEL ->
            << RequirePrimaryToken(r.prop),
               RequireMatchingDExOffer(off, r.from, r.prop) >>

exodus_senddexsell_checks(r, off) ==
    CASE r.action = CMPTransaction_NEW ->
            << RequirePrimaryToken(r.prop),
               RequireBalance(r.from, r.prop, r.amount),
               RequireNoOtherDExOffer(off, r.from, r.prop) >>
      [] r.action = CMPTransaction_UPDATE ->
            << RequirePrimaryToken(r.prop),
               RequireBalance(r.from, r.prop, r.amount),
               RequireMatchingDExOffer(off, r.from, r.prop) >>
      [] r.action = CMPTransaction_CANCEL ->
            << RequirePrimaryToken(r.prop),
               RequireMatchingDExOffer(off, r.from, r.prop) >>

exodus_sendissuancecrowdsale(t) ==
    \E ecosystem \in {1, 2}, name \in {"", "T"}, desired \in {1, NoProperty} :
        Enter(t, [NoReq EXCEPT !.kind = "exodus_sendissuancecrowdsale", !.from = "a1",
                  !.ecosystem = ecosystem, !.name = name, !.prop = desired])

exodus_sendissuancecrowdsale_checks(r) ==
    << RequirePropertyName(r.name),
       RequireExistingProperty(r.prop),
       RequireSameEcosystem(r.ecosystem, r.prop) >>

\* sigma is -1 when the optional parameter is absent.
RequireSigmaStatus(status) ==
    IF status \in 0..3 THEN OK ELSE "Sigma status is not valid"

exodus_sendissuancefixed(t) ==
    \E name \in {"", "T"}, sigma \in {-1, 1, 7} :
        Enter(t, [NoReq EXCEPT !.kind = "exodus_sendissuancefixed", !.from = "a1",
                  !.name = name, !.sigma = sigma])

exodus_sendissuancefixed_checks(r) ==
    << RequirePropertyName(r.name) >>
    \o (IF r.sigma # -1 THEN << RequireSigmaStatus(r.sigma) >> ELSE << >>)

exodus_sendissuancemanaged(t) ==
    \E name \in {"", "T"}, sigma \in {-1, 1, 7} :
        Enter(t, [NoReq EXCEPT !.kind = "exodus_sendissuancemanaged", !.from = "a1",
                  !.name = name, !.sigma = sigma])

exodus_sendissuancemanaged_checks(r) ==
    << RequirePropertyName(r.name) >>
    \o (IF r.sigma # -1 THEN << RequireSigmaStatus(r.sigma) >> ELSE << >>)

exodus_sendsto(t) ==
    \E from \in Addresses, amount \in {1, 5} :
        Enter(t, [NoReq EXCEPT !.kind = "exodus_sendsto", !.from = from, !.prop = 1,
                  !.amount = amount])

exodus_sendsto_checks(r) == << RequireBalance(r.from, r.prop, r.amount) >>

exodus_sendgrant(t) ==
    \E from \in Addresses, prop \in {1, 3, NoProperty} :
        Enter(t, [NoReq EXCEPT !.kind = "exodus_sendgrant", !.from = from, !.to = "a2",
                  !.prop = prop, !.amount = 60])

exodus_sendgrant_checks_with_balance(r) ==
    << RequireExistingProperty(r.prop),
       RequireManagedProperty(r.prop),
       RequireTokenIssuer(r.from, r.prop),
       RequireBalance(r.from, r.prop, r.amount) >>

exodus_sendgrant_checks(r) ==
    << RequireExistingProperty(r.prop),
       RequireManagedProperty(r.prop),
       RequireTokenIssuer(r.from, r.prop) >>

exodus_sendrevoke(t) ==
    \E from \in Addresses, prop \in {1, 3, NoProperty}, amount \in {5, 60} :
        Enter(t, [NoReq EXCEPT !.kind = "exodus_sendrevoke", !.from = from, !.prop = prop,
                  !.amount = amount])

exodus_sendrevoke_checks(r) ==
    << RequireExistingProperty(r.prop),
       RequireManagedProperty(r.prop),
       RequireTokenIssuer(r.from, r.prop),
       RequireBalance(r.from, r.prop, r.amount) >>

exodus_sendclosecrowdsale(t) ==
    \E from \in Addresses, prop \in {3, 4, NoProperty} :
        Enter(t, [NoReq EXCEPT !.kind = "exodus_sendclosecrowdsale", !.from = from,
                  !.prop = prop])

exodus_sendclosecrowdsale_checks(r) ==
    << RequireExistingProperty(r.prop),
       RequireCrowdsale(r.prop),
       RequireActiveCrowdsale(r.prop),
       RequireTokenIssuer(r.from, r.prop) >>

exodus_sendtrade(t) ==
    \E from \in Addresses, prop \in {1, 2, NoProperty}, desired \in {1, 2, 3, NoProperty} :
        Enter(t, [NoReq EXCEPT !.kind = "exodus_sendtrade", !.from = from, !.prop = prop,
                  !.amount = 5, !.desired = desired])

exodus_sendtrade_checks_ids_first(r) ==
    << RequireExistingProperty(r.prop),
       RequireExistingProperty(r.desired),
       RequireDifferentIds(r.prop, r.desired),
       RequireBalance(r.from, r.prop, r.amount),
       RequireSameEcosystem(r.prop, r.desired) >>

exodus_sendtrade_checks(r) ==
    << RequireExistingProperty(r.prop),
       RequireExistingProperty(r.desired),
       RequireBalance(r.from, r.prop, r.amount),
       RequireSameEcosystem(r.prop, r.desired),
       RequireDifferentIds(r.prop, r.desired) >>

exodus_sendcanceltradesbyprice(t) ==
    \E prop \in {1, 2, NoProperty}, desired \in {1, 3, NoProperty} :
        Enter(t, [NoReq EXCEPT !.kind = "exodus_sendcanceltradesbyprice", !.from = "a1",
                  !.prop = prop, !.amount = 5, !.desired = desired])

exodus_sendcanceltradesbyprice_checks(r) ==
    << RequireExistingProperty(r.prop),
       RequireExistingProperty(r.desired),
       RequireSameEcosystem(r.prop, r.desired),
       RequireDifferentIds(r.prop, r.desired) >>

exodus_sendcanceltradesbypair(t) ==
    \E prop \in {1, 2, NoProperty}, desired \in {1, 3, NoProperty} :
        Enter(t, [NoReq EXCEPT !.kind = "exodus_sendcanceltradesbypair", !.from = "a1",
                  !.prop = prop, !.desired = desired])

exodus_sendcanceltradesbypair_checks(r) ==
    << RequireExistingProperty(r.prop),
       RequireExistingProperty(r.desired),
       RequireSameEcosystem(r.prop, r.desired),
       RequireDifferentIds(r.prop, r.desired) >>

exodus_sendcancelalltrades(t) ==
    \E ecosystem \in {1, 2} :
        Enter(t, [NoReq EXCEPT !.kind = "exodus_sendcancelalltrades", !.from = "a1",
                  !.ecosystem = ecosystem])

\* ---- the deprecated entry point of the token exchange
CMPTransaction_ADD == 1
CMPTransaction_CANCEL_AT_PRICE == 2
CMPTransaction_CANCEL_ALL_FOR_PAIR == 3
CMPTransaction_CANCEL_EVERYTHING == 4
EXODUS_PROPERTY_EXODUS == 1
EXODUS_PROPERTY_TEXODUS == 2

trade_MP_ecosystem_of_sale(forSale, desired) ==
    IF isTestEcosystemProperty(forSale) THEN EXODUS_PROPERTY_TEXODUS
    ELSE EXODUS_PROPERTY_EXODUS

\* uint8_t ecosystem = 0, then the two if statements of CANCEL_EVERYTHING.
trade_MP_ecosystem(forSale, desired) ==
    LET ecosystem0 == 0
        ecosystem1 == IF isMainEcosystemProperty(forSale) /\ isMainEcosystemProperty(desired)
                      THEN EXODUS_PROPERTY_EXODUS ELSE ecosystem0
    IN IF isTestEcosystemProperty(forSale) /\ isTestEcosystemProperty(desired)
       THEN EXODUS_PROPERTY_TEXODUS ELSE ecosystem1

\* The handler an action is forwarded to; "" when the switch has no case for it.
trade_MP_target(action) ==
    CASE action = CMPTransaction_ADD -> "exodus_sendtrade"
      [] action = CMPTransaction_CANCEL_AT_PRICE -> "exodus_sendcanceltradesbyprice"
      [] action = CMPTransaction_CANCEL_ALL_FOR_PAIR -> "exodus_sendcanceltradesbypair"
      [] action = CMPTransaction_CANCEL_EVERYTHING -> "exodus_sendcancelalltrades"
      [] OTHER -> ""

\* The array `values` the case of the action fills from params (params[0] of
\* the code is params[1] here).
trade_MP_values(params) ==
    CASE params[6] \in {CMPTransaction_ADD, CMPTransaction_CANCEL_AT_PRICE} ->
            << params[1], params[2], params[3], params[4], params[5] >>
      [] params[6] = CMPTransaction_CANCEL_ALL_FOR_PAIR ->
            << params[1], params[2], params[4] >>
      [] params[6] = CMPTransaction_CANCEL_EVERYTHING ->
            << params[1], trade_MP_ecosystem(params[2], params[4]) >>
      [] OTHER -> << >>

\* The request the handler `target` parses from the forwarded values.
trade_MP_request(target, params, values) ==
    CASE target \in {"exodus_sendtrade", "exodus_sendcanceltradesbyprice"} ->
            [NoReq EXCEPT !.kind = target, !.from = values[1], !.prop = values[2],
                          !.amount = values[3], !.desired = values[4],
                          !.params = params, !.values = values]
      [] target = "exodus_sendcanceltradesbypair" ->
            [NoReq EXCEPT !.kind = target, !.from = values[1], !.prop = values[2],
                          !.desired = values[3], !.params = params, !.values = values]
      [] target = "exodus_sendcancelalltrades" ->
            [NoReq EXCEPT !.kind = target, !.from = values[1], !.ecosystem = values[2],
                          !.params = params, !.values = values]
      [] OTHER -> [NoReq EXCEPT !.kind = "trade_MP", !.params = params]

trade_MP(t) ==
    \E prop \in {1, 2}, desired \in {2, 3}, action \in 0..5 :
        Enter(t, [NoReq EXCEPT !.kind = "trade_MP",
                  !.params = << "a1", prop, 5, desired, 7, action >>])

exodus_sendchangeissuer(t) ==
    \E from \in Addresses, prop \in {3, NoProperty} :
        Enter(t, [NoReq EXCEPT !.kind = "exodus_sendchangeissuer", !.from = from, !.to = "a2",
                  !.prop = prop])

exodus_sendchangeissuer_checks(r) ==
    << RequireExistingProperty(r.prop),
       RequireTokenIssuer(r.from, r.prop) >>

exodus_sendenablefreezing(t) ==
    \E from \in Addresses, prop \in {1, 3, NoProperty} :
        Enter(t, [NoReq EXCEPT !.kind = "exodus_sendenablefreezing", !.from = from,
                  !.prop = prop])

exodus_senddisablefreezing(t) ==
    \E from \in Addresses, prop \in {1, 3, NoProperty} :
        Enter(t, [NoReq EXCEPT !.kind = "exodus_senddisablefreezing", !.from = from,
                  !.prop = prop])

exodus_sendfreeze(t) ==
    \E from \in Addresses, prop \in {1, 3, NoProperty} :
        Enter(t, [NoReq EXCEPT !.kind = "exodus_sendfreeze", !.from = from, !.to = "a2",
                  !.prop = prop, !.amount = 0])

exodus_sendunfreeze(t) ==
    \E from \in Addresses, prop \in {1, 3, NoProperty} :
        Enter(t, [NoReq EXCEPT !.kind = "exodus_sendunfreeze", !.from = from, !.to = "a2",
                  !.prop = prop, !.amount = 0])

\* enablefreezing, disablefreezing, freeze and unfreeze run the same three checks.
exodus_sendfreezing_checks(r) ==
    << RequireExistingProperty(r.prop),
       RequireManagedProperty(r.prop),
       RequireTokenIssuer(r.from, r.prop) >>

exodus_sendactivation(t) ==
    \E featureId \in {-1, 1, 65537} :
        Enter(t, [NoReq EXCEPT !.kind = "exodus_sendactivation", !.from = "a1",
                  !.featureId = featureId])

exodus_senddeactivation(t) ==
    \E featureId \in {-1, 1, 65537} :
        Enter(t, [NoReq EXCEPT !.kind = "exodus_senddeactivation", !.from = "a1",
                  !.featureId = featureId])

\* The expiry value is a 64-bit integer, kept here as its two halves
\* expiryHigh * 2^16 * 2^16 ... (high word above 32 bits) and expiryLow: it is
\* beyond 4294967295 exactly when the high word is not 0.
exodus_sendalert(t) ==
    \E alertType \in {0, 1, 65536}, expiryHigh \in {0, 1}, expiryLow \in {0, 1} :
        Enter(t, [NoReq EXCEPT !.kind = "exodus_sendalert", !.from = "a1",
                  !.alertType = alertType, !.expiryHigh = expiryHigh, !.expiryLow = expiryLow])

exodus_sendalert_checks(r) ==
    << IF r.alertType < 1 \/ 65535 < r.alertType THEN "Alert type is out of range" ELSE OK,
       IF (r.expiryHigh = 0 /\ r.expiryLow < 1) \/ r.expiryHigh > 0
       THEN "Expiry value is out of range" ELSE OK >>

\* create-denomination: the property's table must have room and must not hold the value.
\* (MAX_DENOMINATIONS is scaled to the size of the property table above.)
MAX_DENOMINATIONS == 3

Range(f) == {f[i] : i \in DOMAIN f}

exodus_sendcreatedenomination(t) ==
    \E from \in Addresses, prop \in {1, 3, 4, NoProperty}, value \in {10, 30} :
        Enter(t, [NoReq EXCEPT !.kind = "exodus_sendcreatedenomination", !.from = from,
                  !.prop = prop, !.value = value])

exodus_sendcreatedenomination_checks_value_first(r) ==
    << RequireExistingProperty(r.prop),
       RequireTokenIssuer(r.from, r.prop),
       RequireSigma(r.prop),
       IF IsPropertyIdValid(r.prop) /\ r.value \in Range(my_sps[r.prop].denominations)
       THEN "Denomination with value already exists" ELSE OK,
       IF IsPropertyIdValid(r.prop) /\ Len(my_sps[r.prop].denominations) >= MAX_DENOMINATIONS
       THEN "No more room for new denomination" ELSE OK >>

exodus_sendcreatedenomination_checks(r) ==
    << RequireExistingProperty(r.prop),
       RequireTokenIssuer(r.from, r.prop),
       RequireSigma(r.prop),
       IF IsPropertyIdValid(r.prop) /\ Len(my_sps[r.prop].denominations) >= MAX_DENOMINATIONS
       THEN "No more room for new denomination" ELSE OK,
       IF IsPropertyIdValid(r.prop) /\ r.value \in Range(my_sps[r.prop].denominations)
       THEN "Denomination with value already exists" ELSE OK >>

\* ---- exchange accept
exodus_senddexaccept(t) ==
    \E to \in Addresses, prop \in {1, 3}, override \in BOOLEAN :
        Enter(t, [NoReq EXCEPT !.kind = "exodus_senddexaccept", !.from = "a2", !.to = to,
                  !.prop = prop, !.amount = 1, !.override = override])

exodus_senddexaccept_checks_whatever_override(r, off) ==
    << RequirePrimaryToken(r.prop),
       RequireMatchingDExOffer(off, r.to, r.prop),
       RequireSaneDExFee(off, r.to, r.prop),
       RequireSaneDExPaymentWindow(off, r.to, r.prop) >>

exodus_senddexaccept_checks(r, off) ==
    << RequirePrimaryToken(r.prop),
       RequireMatchingDExOffer(off, r.to, r.prop) >>
    \o (IF ~r.override
        THEN << RequireSaneDExFee(off, r.to, r.prop),
                RequireSaneDExPaymentWindow(off, r.to, r.prop) >>
        ELSE << >>)

\* ---- mint
\* A mint request lists (denomination id, count) pairs in the order of its keys.
MintDenomIds == {0, 1, 2, 3, 256}
MintCounts == {-1, 0, 1, 2, 256}
MintPairs == MintDenomIds \X MintCounts
MintRequests ==
    {<<a>> : a \in MintPairs} \cup
    {q \in {<<a, b>> : a \in {0, 1} \X {1}, b \in {0, 1, 2} \X {2}} : q[1][1] # q[2][1]}

exodus_sendmint(t) ==
    \E from \in Addresses, prop \in {1, 3}, denominations \in MintRequests, minConfirms \in {3, 6} :
        Enter(t, [NoReq EXCEPT !.kind = "exodus_sendmint", !.from = from, !.prop = prop,
                  !.denominations = denominations, !.minConfirms = minConfirms])

UINT8_MAX == 255

HasDenomination(p, d) == IF IsPropertyIdValid(p) THEN d + 1 \in DOMAIN my_sps[p].denominations ELSE FALSE
GetDenominationValue(p, d) == IF HasDenomination(p, d) THEN my_sps[p].denominations[d + 1] ELSE 0

\* Confirmations still missing for denomination d to have `target` of them.
getDenominationRemainingConfirmation(p, d, target) ==
    IF my_sps[p].confirms[d + 1] >= target THEN 0 ELSE target - my_sps[p].confirms[d + 1]

\* denoms: every denomination id repeated count times, in request order.
Repeat(x, n) == [i \in 1..n |-> x]

RECURSIVE MintDenoms_once_per_key(_)
MintDenoms_once_per_key(pairs) ==
    IF pairs = << >> THEN << >>
    ELSE (IF Head(pairs)[2] > 0 THEN <<Head(pairs)[1]>> ELSE << >>)
         \o MintDenoms_once_per_key(Tail(pairs))

\* denoms.insert(denoms.end(), amount, denomId) for every key of the request.
RECURSIVE MintDenoms(_)
MintDenoms(pairs) ==
    IF pairs = << >> THEN << >>
    ELSE Repeat(Head(pairs)[1], Head(pairs)[2]) \o MintDenoms(Tail(pairs))

\* The sum of the face values, or Overflow (std::overflow_error) when it is
\* beyond the largest int64_t.
Overflow == -1
Add(a, b) == IF a = Overflow \/ b = Overflow \/ a > INT64_MAX - b THEN Overflow ELSE a + b
\* (The sequence is summed by halves: the values are not negative, so the
\* result is the one of the sum from left to right.)
RECURSIVE SumDenominationsValue(_, _)
SumDenominationsValue(p, denoms) ==
    IF denoms = << >> THEN 0
    ELSE IF Len(denoms) = 1 THEN GetDenominationValue(p, denoms[1])
    ELSE Add(SumDenominationsValue(p, SubSeq(denoms, 1, Len(denoms) \div 2)),
             SumDenominationsValue(p, SubSeq(denoms, Len(denoms) \div 2 + 1, Len(denoms))))

exodus_sendmint_denomination_checks_without_confirmations(r, pair) ==
    << IF pair[1] > UINT8_MAX THEN "invalid denomination" ELSE OK,
       IF pair[2] < 0 \/ pair[2] > UINT8_MAX THEN "invalid amount of mints" ELSE OK,
       IF ~HasDenomination(r.prop, pair[1]) THEN "denomination not found" ELSE OK >>

exodus_sendmint_denomination_checks_counts_unchecked(r, pair) ==
    << IF pair[1] > UINT8_MAX THEN "invalid denomination" ELSE OK,
       IF ~HasDenomination(r.prop, pair[1]) THEN "denomination not found" ELSE OK,
       IF HasDenomination(r.prop, pair[1])
          /\ getDenominationRemainingConfirmation(r.prop, pair[1], r.minConfirms) # 0
       THEN "confirmations of the denomination is less than required" ELSE OK >>

\* The checks of one round of the loop over the request's keys.
exodus_sendmint_denomination_checks(r, pair) ==
    << IF pair[1] > UINT8_MAX THEN "invalid denomination" ELSE OK,
       IF pair[2] < 0 \/ pair[2] > UINT8_MAX THEN "invalid amount of mints" ELSE OK,
       IF ~HasDenomination(r.prop, pair[1]) THEN "denomination not found" ELSE OK,
       IF HasDenomination(r.prop, pair[1])
          /\ getDenominationRemainingConfirmation(r.prop, pair[1], r.minConfirms) # 0
       THEN "confirmations of the denomination is less than required" ELSE OK >>

RECURSIVE exodus_sendmint_loop_checks(_, _)
exodus_sendmint_loop_checks(r, pairs) ==
    IF pairs = << >> THEN << >>
    ELSE exodus_sendmint_denomination_checks(r, Head(pairs))
         \o exodus_sendmint_loop_checks(r, Tail(pairs))

exodus_sendmint_amount(r) == SumDenominationsValue(r.prop, MintDenoms(r.denominations))

exodus_sendmint_checks(r) ==
    << RequireExistingProperty(r.prop), RequireSigma(r.prop) >>
    \o exodus_sendmint_loop_checks(r, r.denominations)
    \o << IF exodus_sendmint_amount(r) = Overflow THEN "overflow_error" ELSE OK,
          RequireBalance(r.from, r.prop, exodus_sendmint_amount(r)) >>

\* The code of the JSONRPCError the handlers themselves throw with a message;
\* the errors of the Require... checks are raised outside this file.
JSONRPCErrorCode(message) ==
    IF message \in {"Alert type is out of range", "Expiry value is out of range",
                    "No more room for new denomination",
                    "Denomination with value already exists",
                    "invalid denomination", "invalid amount of mints",
                    "denomination not found",
                    "confirmations of the denomination is less than required",
                    "overflow_error"}
    THEN "RPC_INVALID_PARAMETER"
    ELSE IF message \in {"Unable to load sell offer from the distributed exchange",
                         "Invalid action (1,2,3,4 only)"}
    THEN "RPC_TYPE_ERROR"
    ELSE "Require"

\* ---- spend
exodus_sendspend(t) ==
    \E prop \in {3, NoProperty}, denomination \in {0, 1, 3}, ref \in ReferenceAmounts :
        Enter(t, [NoReq EXCEPT !.kind = "exodus_sendspend", !.from = "", !.to = "a2",
                  !.prop = prop, !.denomination = denomination, !.ref = ref])

exodus_sendspend_checks(r) ==
    << RequireExistingProperty(r.prop),
       RequireExistingDenomination(r.prop, r.denomination),
       RequireSaneReferenceAmount(r.ref) >>

\* ---------------------------------------------- the statements of a handler
\* What a handler does after parsing, in program order.  "checks" are its
\* Require... calls (and inline range checks); "WalletTxBuilder" is the build
\* call together with the handling of its result.
checked_steps == << "checks", "WalletTxBuilder" >>
unchecked_steps == << "WalletTxBuilder" >>
exodus_senddexaccept_steps_unlocked ==
    << "checks", "DEx_getOffer", "payTxFee", "WalletTxBuilder" >>
exodus_senddexaccept_steps == << "checks", "DEx_getOffer", "LOCK2", "payTxFee", "WalletTxBuilder" >>
exodus_sendmint_steps_create_first ==
    << "CreateSigmaMints", "checks", "WalletTxBuilder", "EraseSigmaMint" >>
exodus_sendmint_steps == << "checks", "CreateSigmaMints", "WalletTxBuilder", "EraseSigmaMint" >>
exodus_sendspend_steps_build_first == << "checks", "WalletTxBuilder", "CreateSigmaSpend" >>
exodus_sendspend_steps == << "checks", "CreateSigmaSpend", "WalletTxBuilder" >>

UncheckedKinds == {"exodus_sendrawtx", "exodus_sendcancelalltrades", "exodus_sendactivation",
                   "exodus_senddeactivation"}
SpecialKinds == {"exodus_senddexaccept", "exodus_sendmint", "exodus_sendspend"}

Steps(kind) ==
    CASE kind = "exodus_senddexaccept" -> exodus_senddexaccept_steps
      [] kind = "exodus_sendmint" -> exodus_sendmint_steps
      [] kind = "exodus_sendspend" -> exodus_sendspend_steps
      [] kind \in UncheckedKinds -> unchecked_steps
      [] kind = "trade_MP" -> << "switch" >>
      [] kind = "none" -> << >>
      [] OTHER -> checked_steps

At(t) == IF pc[t] \in DOMAIN Steps(req[t].kind) THEN Steps(req[t].kind)[pc[t]] ELSE ""

Checks(r, off) ==
    CASE r.kind = "exodus_send" -> exodus_send_checks(r)
      [] r.kind = "exodus_sendall" -> exodus_sendall_checks(r)
      [] r.kind = "exodus_senddexsell" -> exodus_senddexsell_checks(r, off)
      [] r.kind = "exodus_senddexaccept" -> exodus_senddexaccept_checks(r, off)
      [] r.kind = "exodus_sendissuancecrowdsale" -> exodus_sendissuancecrowdsale_checks(r)
      [] r.kind = "exodus_sendissuancefixed" -> exodus_sendissuancefixed_checks(r)
      [] r.kind = "exodus_sendissuancemanaged" -> exodus_sendissuancemanaged_checks(r)
      [] r.kind = "exodus_sendsto" -> exodus_sendsto_checks(r)
      [] r.kind = "exodus_sendgrant" -> exodus_sendgrant_checks(r)
      [] r.kind = "exodus_sendrevoke" -> exodus_sendrevoke_checks(r)
      [] r.kind = "exodus_sendclosecrowdsale" -> exodus_sendclosecrowdsale_checks(r)
      [] r.kind = "exodus_sendtrade" -> exodus_sendtrade_checks(r)
      [] r.kind = "exodus_sendcanceltradesbyprice" -> exodus_sendcanceltradesbyprice_checks(r)
      [] r.kind = "exodus_sendcanceltradesbypair" -> exodus_sendcanceltradesbypair_checks(r)
      [] r.kind = "exodus_sendchangeissuer" -> exodus_sendchangeissuer_checks(r)
      [] r.kind \in {"exodus_sendenablefreezing", "exodus_senddisablefreezing",
                     "exodus_sendfreeze", "exodus_sendunfreeze"} -> exodus_sendfreezing_checks(r)
      [] r.kind = "exodus_sendalert" -> exodus_sendalert_checks(r)
      [] r.kind = "exodus_sendcreatedenomination" -> exodus_sendcreatedenomination_checks(r)
      [] r.kind = "exodus_sendmint" -> exodus_sendmint_checks(r)
      [] r.kind = "exodus_sendspend" -> exodus_sendspend_checks(r)
      [] OTHER -> << >>

\* ------------------------------------------------------ ending an invocation
Error(stage, code) == [NoOut EXCEPT !.kind = "error", !.stage = stage, !.code = code]
Exception == [NoOut EXCEPT !.kind = "exception", !.stage = "build", !.code = "exception"]
RawHex == [NoOut EXCEPT !.kind = "rawHex"]
TxId(txid) == [NoOut EXCEPT !.kind = "txid", !.txid = txid]

\* The invocation returns or throws o: its scoped locks are released.
Finish(t, o) ==
    /\ pc' = [pc EXCEPT ![t] = -1]
    /\ out' = [out EXCEPT ![t] = o]
    /\ cs_main' = IF cs_main = t THEN 0 ELSE cs_main
    /\ cs_wallet' = IF cs_wallet = t THEN 0 ELSE cs_wallet
    /\ overrideBy' = IF overrideBy = t THEN 0 ELSE overrideBy

Advance(t) ==
    /\ pc' = [pc EXCEPT ![t] = @ + 1]
    /\ out' = out

\* The checks read the ledger under cs_main, one after the other; the first
\* one that fails throws.
RunChecks(t) ==
    /\ At(t) = "checks"
    /\ cs_main \in {0, t}
    /\ LET e == FirstFailure(Checks(req[t], offers)) IN
        IF e # OK
        THEN /\ Finish(t, Error("check", e))
             /\ loc' = loc
        ELSE /\ Advance(t)
             /\ loc' = IF req[t].kind = "exodus_senddexaccept"
                       THEN [loc EXCEPT ![t].checked = DEx_getOffer(offers, req[t].to, req[t].prop)]
                       ELSE loc
             /\ UNCHANGED <<cs_main, cs_wallet, overrideBy>>
    /\ UNCHANGED <<req, log, pending, mintStore, nextKey, txCount, payTxFee, offers,
                   autoCommit, seen, budget, changes>>

\* switch (action) of trade_MP: the call of the handler the action names, or
\* the throw after the switch.
trade_MP_switch(t) ==
    /\ At(t) = "switch"
    /\ LET target == trade_MP_target(req[t].params[6]) IN
        IF target = ""
        THEN /\ Finish(t, Error("parse", "Invalid action (1,2,3,4 only)"))
             /\ req' = req
        ELSE /\ req' = [req EXCEPT ![t] =
                            trade_MP_request(target, req[t].params, trade_MP_values(req[t].params))]
             /\ UNCHANGED <<pc, out, cs_main, cs_wallet, overrideBy>>
    /\ UNCHANGED <<loc, log, pending, mintStore, nextKey, txCount, payTxFee, offers,
                   autoCommit, seen, budget, changes>>

\* ------------------------------------------------------------ the builder
\* WalletTxBuilder returns 0, returns an error code, or terminates by an
\* exception.  It funds the transaction at the global fee rate inside its own
\* (cs_main, cs_wallet) critical section.
BuilderOutcomes == {"ok", "fail", "throw"}
BuilderReady(t) == cs_main \in {0, t} /\ cs_wallet \in {0, t}
BuilderResult(o) == IF o = "ok" THEN 0 ELSE -1
BuilderTxid(o) == IF o = "ok" /\ autoCommit THEN txCount + 1 ELSE 0
BuilderCall(t, o) == Ev("WalletTxBuilder", BuilderResult(o), payTxFee, overrideBy)

uint16_t_not_narrowed(x) == x

\* uint16_t x = params[i].get_int(): the value is narrowed to 16 bits.
uint16_t(x) == x % 65536

\* The CreatePayload_... call of each handler, with the numeric arguments the
\* requests carry (texts and addresses are left out); l holds the handler's
\* local variables.
Payload(r, l) ==
    CASE r.kind = "exodus_sendrawtx" -> CreatePayload("raw", << >>)
      [] r.kind = "exodus_send" -> CreatePayload("SimpleSend", <<r.prop, r.amount>>)
      [] r.kind = "exodus_sendall" -> CreatePayload("SendAll", <<r.ecosystem>>)
      [] r.kind = "exodus_senddexsell" ->
            CreatePayload("DExSell", <<r.prop>>
                                     \o exodus_senddexsell_conversions(r.action, r.supplied)
                                     \o <<r.action>>)
      [] r.kind = "exodus_senddexaccept" -> CreatePayload("DExAccept", <<r.prop, r.amount>>)
      [] r.kind = "exodus_sendissuancecrowdsale" ->
            CreatePayload("IssuanceVariable", <<r.ecosystem, r.prop>>)
      [] r.kind = "exodus_sendissuancefixed" ->
            CreatePayload("IssuanceFixed", <<r.ecosystem, r.amount, r.sigma>>)
      [] r.kind = "exodus_sendissuancemanaged" ->
            CreatePayload("IssuanceManaged", <<r.ecosystem, r.sigma>>)
      [] r.kind = "exodus_sendsto" -> CreatePayload("SendToOwners", <<r.prop, r.amount, r.prop>>)
      [] r.kind = "exodus_sendgrant" -> CreatePayload("Grant", <<r.prop, r.amount>>)
      [] r.kind = "exodus_sendrevoke" -> CreatePayload("Revoke", <<r.prop, r.amount>>)
      [] r.kind = "exodus_sendclosecrowdsale" -> CreatePayload("CloseCrowdsale", <<r.prop>>)
      [] r.kind = "exodus_sendtrade" ->
            CreatePayload("MetaDExTrade", <<r.prop, r.amount, r.desired>>)
      [] r.kind = "exodus_sendcanceltradesbyprice" ->
            CreatePayload("MetaDExCancelPrice", <<r.prop, r.amount, r.desired>>)
      [] r.kind = "exodus_sendcanceltradesbypair" ->
            CreatePayload("MetaDExCancelPair", <<r.prop, r.desired>>)
      [] r.kind = "exodus_sendcancelalltrades" ->
            CreatePayload("MetaDExCancelEcosystem", <<r.ecosystem>>)
      [] r.kind = "exodus_sendchangeissuer" -> CreatePayload("ChangeIssuer", <<r.prop>>)
      [] r.kind = "exodus_sendenablefreezing" -> CreatePayload("EnableFreezing", <<r.prop>>)
      [] r.kind = "exodus_senddisablefreezing" -> CreatePayload("DisableFreezing", <<r.prop>>)
      [] r.kind = "exodus_sendfreeze" -> CreatePayload("FreezeTokens", <<r.prop, r.amount>>)
      [] r.kind = "exodus_sendunfreeze" -> CreatePayload("UnfreezeTokens", <<r.prop, r.amount>>)
      [] r.kind = "exodus_sendactivation" ->
            CreatePayload("ActivateFeature", <<uint16_t(r.featureId)>>)
      [] r.kind = "exodus_senddeactivation" ->
            CreatePayload("DeactivateFeature", <<uint16_t(r.featureId)>>)
      [] r.kind = "exodus_sendalert" ->
            CreatePayload("ExodusAlert", <<r.alertType, r.expiryHigh, r.expiryLow>>)
      [] r.kind = "exodus_sendcreatedenomination" ->
            CreatePayload("CreateDenomination", <<r.prop, r.value>>)
      [] r.kind = "exodus_sendmint" -> CreatePayload("SimpleMint", <<r.prop, l.mints>>)
      [] r.kind = "exodus_sendspend" ->
            CreatePayload("SimpleSpend", <<r.prop, r.denomination, l.mint>>)
      [] OTHER -> NoPayload

NoPending == [txid |-> 0, address |-> "", type |-> "", prop |-> 0, amount |-> 0,
              subtract |-> FALSE]
PendingEntry(txid, a, type, p, amount, subtract) ==
    [NoPending EXCEPT !.txid = txid, !.address = a, !.type = type, !.prop = p,
                      !.amount = amount, !.subtract = subtract]

PendingEffect_with_sendall(r, txid) ==
    CASE r.kind = "exodus_send" ->
            {PendingEntry(txid, r.from, "SIMPLE_SEND", r.prop, r.amount, TRUE)}
      [] r.kind = "exodus_sendall" ->
            {PendingEntry(txid, r.from, "SEND_ALL", r.ecosystem, 0, TRUE)}
      [] r.kind = "exodus_senddexsell" ->
            {PendingEntry(txid, r.from, "TRADE_OFFER", r.prop, r.amount,
                          r.action <= CMPTransaction_UPDATE)}
      [] r.kind = "exodus_sendsto" ->
            {PendingEntry(txid, r.from, "SEND_TO_OWNERS", r.prop, r.amount, TRUE)}
      [] r.kind = "exodus_sendtrade" ->
            {PendingEntry(txid, r.from, "METADEX_TRADE", r.prop, r.amount, TRUE)}
      [] r.kind = "exodus_sendcanceltradesbyprice" ->
            {PendingEntry(txid, r.from, "METADEX_CANCEL_PRICE", r.prop, r.amount, FALSE)}
      [] r.kind = "exodus_sendcanceltradesbypair" ->
            {PendingEntry(txid, r.from, "METADEX_CANCEL_PAIR", r.prop, 0, FALSE)}
      [] r.kind = "exodus_sendcancelalltrades" ->
            {PendingEntry(txid, r.from, "METADEX_CANCEL_ECOSYSTEM", r.ecosystem, 0, FALSE)}
      [] OTHER -> {}

PendingEffect_trade_records_desired(r, txid) ==
    CASE r.kind = "exodus_send" ->
            {PendingEntry(txid, r.from, "SIMPLE_SEND", r.prop, r.amount, TRUE)}
      [] r.kind = "exodus_sendsto" ->
            {PendingEntry(txid, r.from, "SEND_TO_OWNERS", r.prop, r.amount, TRUE)}
      [] r.kind = "exodus_sendtrade" ->
            {PendingEntry(txid, r.from, "METADEX_TRADE", r.desired, r.amount, TRUE)}
      [] OTHER -> {}

PendingEffect_always_subtracts(r, txid) ==
    CASE r.kind = "exodus_send" ->
            {PendingEntry(txid, r.from, "SIMPLE_SEND", r.prop, r.amount, TRUE)}
      [] r.kind = "exodus_senddexsell" ->
            {PendingEntry(txid, r.from, "TRADE_OFFER", r.prop, r.amount, TRUE)}
      [] r.kind = "exodus_sendsto" ->
            {PendingEntry(txid, r.from, "SEND_TO_OWNERS", r.prop, r.amount, TRUE)}
      [] r.kind = "exodus_sendtrade" ->
            {PendingEntry(txid, r.from, "METADEX_TRADE", r.prop, r.amount, TRUE)}
      [] r.kind = "exodus_sendcanceltradesbyprice" ->
            {PendingEntry(txid, r.from, "METADEX_CANCEL_PRICE", r.prop, r.amount, TRUE)}
      [] r.kind = "exodus_sendcanceltradesbypair" ->
            {PendingEntry(txid, r.from, "METADEX_CANCEL_PAIR", r.prop, 0, TRUE)}
      [] r.kind = "exodus_sendcancelalltrades" ->
            {PendingEntry(txid, r.from, "METADEX_CANCEL_ECOSYSTEM", r.ecosystem, 0, TRUE)}
      [] OTHER -> {}

\* The PendingAdd call of each handler that has one.
PendingEffect(r, txid) ==
    CASE r.kind = "exodus_send" ->
            {PendingEntry(txid, r.from, "SIMPLE_SEND", r.prop, r.amount, TRUE)}
      [] r.kind = "exodus_senddexsell" ->
            {PendingEntry(txid, r.from, "TRADE_OFFER", r.prop, r.amount,
                          r.action <= CMPTransaction_UPDATE)}
      [] r.kind = "exodus_sendsto" ->
            {PendingEntry(txid, r.from, "SEND_TO_OWNERS", r.prop, r.amount, TRUE)}
      [] r.kind = "exodus_sendtrade" ->
            {PendingEntry(txid, r.from, "METADEX_TRADE", r.prop, r.amount, TRUE)}
      [] r.kind = "exodus_sendcanceltradesbyprice" ->
            {PendingEntry(txid, r.from, "METADEX_CANCEL_PRICE", r.prop, r.amount, FALSE)}
      [] r.kind = "exodus_sendcanceltradesbypair" ->
            {PendingEntry(txid, r.from, "METADEX_CANCEL_PAIR", r.prop, 0, FALSE)}
      [] r.kind = "exodus_sendcancelalltrades" ->
            {PendingEntry(txid, r.from, "METADEX_CANCEL_ECOSYSTEM", r.ecosystem, 0, FALSE)}
      [] OTHER -> {}

\* The common tail of the handlers: throw on a non-zero result, return the raw
\* hex without autoCommit, else add the pending effect and return the txid.
PendingAddRuns_without_commit(result, commit) == result = 0
PendingAddRuns_after_failure(result, commit) == commit

PendingAddRuns(result, commit) == result = 0 /\ commit

Reply_txid_in_dry_run(result, commit, txid) ==
    IF result # 0 THEN Error("build", "error_str") ELSE TxId(txid)

Reply(result, commit, txid) ==
    IF result # 0 THEN Error("build", "error_str")
    ELSE IF ~commit THEN RawHex
    ELSE TxId(txid)

PendingAdds(adds, txid) == IF adds = {} THEN << >> ELSE << Ev("PendingAdd", txid, 0, 0) >>

WalletTxBuilder_return(t) ==
    /\ At(t) = "WalletTxBuilder"
    /\ req[t].kind \notin SpecialKinds
    /\ BuilderReady(t)
    /\ \E o \in BuilderOutcomes :
        LET result == BuilderResult(o)
            txid == BuilderTxid(o)
            adds == IF o # "throw" /\ PendingAddRuns(result, autoCommit)
                    THEN PendingEffect(req[t], txid) ELSE {}
        IN /\ log' = [log EXCEPT ![t] = Append(@, BuilderCall(t, o)) \o PendingAdds(adds, txid)]
           /\ pending' = pending \cup adds
           /\ txCount' = IF txid # 0 THEN txid ELSE txCount
           /\ Finish(t, IF o = "throw" THEN Exception ELSE Reply(result, autoCommit, txid))
    /\ loc' = [loc EXCEPT ![t].payload = Payload(req[t], loc[t])]
    /\ UNCHANGED <<req, mintStore, nextKey, payTxFee, offers, autoCommit, seen, budget, changes>>

\* The RPC server has answered; the thread takes the next request.
Answer(t) ==
    /\ pc[t] = -1
    /\ pc' = [pc EXCEPT ![t] = 0]
    /\ req' = [req EXCEPT ![t] = NoReq]
    /\ loc' = [loc EXCEPT ![t] = NoLoc]
    /\ out' = [out EXCEPT ![t] = NoOut]
    /\ log' = [log EXCEPT ![t] = << >>]
    /\ UNCHANGED <<pending, mintStore, nextKey, txCount, payTxFee, overrideBy, offers,
                   cs_main, cs_wallet, autoCommit, seen, budget, changes>>

\* -------------------------------------------------------- exchange accept
CFeeRate(nFeePaid, nSize) == IF nSize > 0 THEN (nFeePaid * 1000) \div nSize ELSE 0

exodus_senddexaccept_getOffer_unchecked(t) ==
    /\ At(t) = "DEx_getOffer"
    /\ cs_main \in {0, t}
    /\ LET sellOffer == DEx_getOffer(offers, req[t].to, req[t].prop) IN
        /\ Advance(t)
        /\ loc' = [loc EXCEPT ![t].nMinimumAcceptFee = sellOffer.minFee,
                              ![t].used = sellOffer]
        /\ UNCHANGED <<cs_main, cs_wallet, overrideBy>>
    /\ UNCHANGED <<req, log, pending, mintStore, nextKey, txCount, payTxFee, offers,
                   autoCommit, seen, budget, changes>>

\* { LOCK(cs_main); sellOffer = DEx_getOffer(...); throw if NULL; getMinFee() }
exodus_senddexaccept_getOffer(t) ==
    /\ At(t) = "DEx_getOffer"
    /\ cs_main \in {0, t}
    /\ LET sellOffer == DEx_getOffer(offers, req[t].to, req[t].prop) IN
        IF ~sellOffer.live
        THEN /\ Finish(t, Error("check", "Unable to load sell offer from the distributed exchange"))
             /\ loc' = loc
        ELSE /\ Advance(t)
             /\ loc' = [loc EXCEPT ![t].nMinimumAcceptFee = sellOffer.minFee,
                                   ![t].used = sellOffer]
             /\ UNCHANGED <<cs_main, cs_wallet, overrideBy>>
    /\ UNCHANGED <<req, log, pending, mintStore, nextKey, txCount, payTxFee, offers,
                   autoCommit, seen, budget, changes>>

exodus_senddexaccept_LOCK2_not_taken(t) ==
    /\ At(t) = "LOCK2"
    /\ Advance(t)
    /\ UNCHANGED <<req, loc, log, pending, mintStore, nextKey, txCount, payTxFee, overrideBy,
                   offers, cs_main, cs_wallet, autoCommit, seen, budget, changes>>

exodus_senddexaccept_LOCK2_wallet_first(t) ==
    /\ At(t) = "LOCK2"
    /\ \/ /\ cs_wallet = 0
          /\ cs_wallet' = t
          /\ UNCHANGED <<pc, out, cs_main>>
       \/ /\ cs_wallet = t
          /\ cs_main = 0
          /\ cs_main' = t
          /\ cs_wallet' = cs_wallet
          /\ Advance(t)
    /\ UNCHANGED <<req, loc, log, pending, mintStore, nextKey, txCount, payTxFee,
                   overrideBy, offers, autoCommit, seen, budget, changes>>

\* LOCK2(cs_main, pwalletMain->cs_wallet), held until the handler is left:
\* the critical block of cs_main is entered first, then the one of cs_wallet.
exodus_senddexaccept_LOCK2(t) ==
    /\ At(t) = "LOCK2"
    /\ \/ /\ cs_main = 0
          /\ cs_main' = t
          /\ UNCHANGED <<pc, out, cs_wallet>>
       \/ /\ cs_main = t
          /\ cs_wallet = 0
          /\ cs_wallet' = t
          /\ cs_main' = cs_main
          /\ Advance(t)
    /\ UNCHANGED <<req, loc, log, pending, mintStore, nextKey, txCount, payTxFee,
                   overrideBy, offers, autoCommit, seen, budget, changes>>

\* payTxFeeOriginal = payTxFee; payTxFee = CFeeRate(nMinimumAcceptFee, 225)
exodus_senddexaccept_override(t) ==
    /\ At(t) = "payTxFee"
    /\ loc' = [loc EXCEPT ![t].payTxFeeOriginal = payTxFee, ![t].feeBefore = payTxFee]
    /\ payTxFee' = CFeeRate(loc[t].nMinimumAcceptFee, 225)
    /\ overrideBy' = t
    /\ log' = [log EXCEPT ![t] = Append(@, Ev("payTxFee", payTxFee', 0, 0))]
    /\ Advance(t)
    /\ UNCHANGED <<req, pending, mintStore, nextKey, txCount, offers, cs_main, cs_wallet,
                   autoCommit, seen, budget, changes>>

exodus_senddexaccept_restore_skipped(original, current) == current

\* The value line 348 stores into payTxFee once the build call has returned.
exodus_senddexaccept_restore(original, current) == original

\* WalletTxBuilder(...); payTxFee = payTxFeeOriginal; then the common tail,
\* without a pending effect.  An exception of the builder leaves the handler
\* at the call.
exodus_senddexaccept_build(t) ==
    /\ At(t) = "WalletTxBuilder"
    /\ req[t].kind = "exodus_senddexaccept"
    /\ BuilderReady(t)
    /\ \E o \in BuilderOutcomes :
        LET result == BuilderResult(o)
            txid == BuilderTxid(o)
            fee == IF o = "throw" THEN payTxFee
                   ELSE exodus_senddexaccept_restore(loc[t].payTxFeeOriginal, payTxFee)
        IN /\ payTxFee' = fee
           /\ log' = [log EXCEPT ![t] =
                        Append(@, BuilderCall(t, o))
                        \o (IF o = "throw" THEN << >> ELSE << Ev("payTxFee", fee, 0, 0) >>)]
           /\ loc' = [loc EXCEPT ![t].exitFee = fee, ![t].payload = Payload(req[t], loc[t])]
           /\ txCount' = IF txid # 0 THEN txid ELSE txCount
           /\ Finish(t, IF o = "throw" THEN Exception ELSE Reply(result, autoCommit, txid))
    /\ UNCHANGED <<req, pending, mintStore, nextKey, offers, autoCommit, seen, budget, changes>>

\* A block is connected (under cs_main) and cancels or replaces the sell
\* offer of the first seller.
DExOfferChange ==
    /\ changes > 0
    /\ cs_main = 0
    /\ \E k \in {<<"a1", 1>>}, o \in {NoOffer, Offer(7000, 20)} :
        /\ offers[k] # o
        /\ offers' = [offers EXCEPT ![k] = o]
    /\ changes' = changes - 1
    /\ UNCHANGED <<pc, req, loc, out, log, pending, mintStore, nextKey, txCount, payTxFee,
                   overrideBy, cs_main, cs_wallet, autoCommit, seen, budget>>

\* ------------------------------------------------------------------- mint
RECURSIVE Reverse(_)
Reverse(s) == IF s = << >> THEN << >> ELSE Append(Reverse(Tail(s)), Head(s))

exodus_sendmint_create_unpublished(t) ==
    /\ At(t) = "CreateSigmaMints"
    /\ LET denoms == MintDenoms(req[t].denominations)
           keys == [i \in 1..Len(denoms) |-> nextKey + i - 1]
       IN /\ mintStore' = mintStore
          /\ nextKey' = nextKey + Len(denoms)
          /\ loc' = [loc EXCEPT ![t].ids = keys, ![t].amount = exodus_sendmint_amount(req[t]),
                                ![t].mints = [i \in 1..Len(denoms) |-> <<denoms[i], keys[i]>>]]
          /\ log' = [log EXCEPT ![t] =
                        @ \o [i \in 1..Len(denoms) |-> Ev("CreateSigmaMint", keys[i], denoms[i], 0)]]
    /\ Advance(t)
    /\ UNCHANGED <<req, pending, txCount, payTxFee, overrideBy, offers, cs_main, cs_wallet,
                   autoCommit, seen, budget, changes>>

\* wallet->CreateSigmaMints: one mint per element of denoms, in order; the
\* output iterator appends each identifier to ids (and its public key to mints).
exodus_sendmint_create(t) ==
    /\ At(t) = "CreateSigmaMints"
    /\ LET denoms == MintDenoms(req[t].denominations)
           keys == [i \in 1..Len(denoms) |-> nextKey + i - 1]
       IN /\ mintStore' = mintStore \cup
                            {Mint(keys[i], req[t].prop, denoms[i]) : i \in 1..Len(denoms)}
          /\ nextKey' = nextKey + Len(denoms)
          /\ loc' = [loc EXCEPT ![t].ids = keys, ![t].amount = exodus_sendmint_amount(req[t]),
                                ![t].mints = [i \in 1..Len(denoms) |-> <<denoms[i], keys[i]>>]]
          /\ log' = [log EXCEPT ![t] =
                        @ \o [i \in 1..Len(denoms) |-> Ev("CreateSigmaMint", keys[i], denoms[i], 0)]]
    /\ Advance(t)
    /\ UNCHANGED <<req, pending, txCount, payTxFee, overrideBy, offers, cs_main, cs_wallet,
                   autoCommit, seen, budget, changes>>

exodus_sendmint_rollback_in_creation_order(ids) == ids

exodus_sendmint_rollback_order_repeated(ids) == Reverse(ids) \o Reverse(ids)

exodus_sendmint_rollback_skips_last(ids) ==
    IF ids = << >> THEN << >> ELSE Tail(Reverse(ids))

\* std::reverse(ids.begin(), ids.end())
exodus_sendmint_rollback_order(ids) == Reverse(ids)

exodus_sendmint_rollback_runs_without_commit(result, commit) == result # 0 \/ ~commit

\* if (result != 0): the rollback loop runs.
exodus_sendmint_rollback_runs(result, commit) == result # 0

exodus_sendmint_PendingAdd_number_of_mints(r, amount, txid) ==
    {PendingEntry(txid, r.from, "SIMPLE_MINT", r.prop, Len(MintDenoms(r.denominations)), TRUE)}

\* PendingAdd(txid, fromAddress, EXODUS_TYPE_SIMPLE_MINT, propertyId, amount)
exodus_sendmint_PendingAdd(r, amount, txid) ==
    {PendingEntry(txid, r.from, "SIMPLE_MINT", r.prop, amount, TRUE)}

\* WalletTxBuilder and the handling of its result: a non-zero result starts
\* the rollback loop, success ends the handler by the common tail.
exodus_sendmint_build(t) ==
    /\ At(t) = "WalletTxBuilder"
    /\ req[t].kind = "exodus_sendmint"
    /\ BuilderReady(t)
    /\ \E o \in BuilderOutcomes :
        LET result == BuilderResult(o)
            txid == BuilderTxid(o)
            adds == IF o # "throw" /\ PendingAddRuns(result, autoCommit)
                    THEN exodus_sendmint_PendingAdd(req[t], loc[t].amount, txid)
                    ELSE {}
        IN /\ log' = [log EXCEPT ![t] = Append(@, BuilderCall(t, o)) \o PendingAdds(adds, txid)]
           /\ pending' = pending \cup adds
           /\ txCount' = IF txid # 0 THEN txid ELSE txCount
           /\ IF o # "throw" /\ exodus_sendmint_rollback_runs(result, autoCommit)
              THEN /\ Advance(t)
                   /\ loc' = [loc EXCEPT ![t].result = result,
                                         ![t].todo = exodus_sendmint_rollback_order(loc[t].ids),
                                         ![t].payload = Payload(req[t], loc[t])]
                   /\ UNCHANGED <<cs_main, cs_wallet, overrideBy>>
              ELSE /\ Finish(t, IF o = "throw" THEN Exception ELSE Reply(result, autoCommit, txid))
                   /\ loc' = [loc EXCEPT ![t].payload = Payload(req[t], loc[t])]
    /\ UNCHANGED <<req, mintStore, nextKey, payTxFee, offers, autoCommit, seen, budget, changes>>

exodus_sendmint_erase_escalates(erased) == erased

\* catch (std::runtime_error const &e) { LogPrintf(...) }: the loop goes on.
exodus_sendmint_erase_caught(erased) == TRUE

exodus_sendmint_rollback_error_of_erase(result, failed) ==
    IF failed > 0 THEN Error("wallet", "runtime_error") ELSE Error("build", "error_str")

\* throw JSONRPCError(result, error_str(result)) after the loop; `failed` is
\* the number of erases that raised.
exodus_sendmint_rollback_error(result, failed) == Error("build", "error_str")

\* One round of the rollback loop, or the throw that follows it.
\* wallet->EraseSigmaMint(id) removes the mint or fails with a runtime_error.
exodus_sendmint_rollback(t) ==
    /\ At(t) = "EraseSigmaMint"
    /\ IF loc[t].todo = << >>
       THEN /\ Finish(t, exodus_sendmint_rollback_error(
                            loc[t].result,
                            Len(SelectSeq(Ops(log[t], "EraseSigmaMint"), LAMBDA e : e.b = 0))))
            /\ UNCHANGED <<loc, log, mintStore>>
       ELSE \E erased \in BOOLEAN :
            LET id == Head(loc[t].todo) IN
            /\ mintStore' = IF erased THEN {m \in mintStore : m.key # id} ELSE mintStore
            /\ log' = [log EXCEPT ![t] =
                          Append(@, Ev("EraseSigmaMint", id, IF erased THEN 1 ELSE 0, 0))]
            /\ loc' = [loc EXCEPT ![t].todo = Tail(@)]
            /\ IF exodus_sendmint_erase_caught(erased)
               THEN UNCHANGED <<pc, out, cs_main, cs_wallet, overrideBy>>
               ELSE Finish(t, Exception)
    /\ UNCHANGED <<req, pending, nextKey, txCount, payTxFee, offers, autoCommit, seen, budget,
                   changes>>

\* ------------------------------------------------------------------ spend
\* The unused mints of the wallet a spend of (p, d) can consume.
Spendable(p, d) == {m \in mintStore : m.property = p /\ m.denomination = d /\ ~m.used}

\* wallet->CreateSigmaSpend picks a mint and proves its ownership, or throws
\* InsufficientFunds (no such mint) or WalletError.
exodus_sendspend_create(t) ==
    /\ At(t) = "CreateSigmaSpend"
    /\ \E w \in {"spend", "WalletError"} :
        IF Spendable(req[t].prop, req[t].denomination) = {}
        THEN /\ Finish(t, Error("wallet", "RPC_WALLET_INSUFFICIENT_FUNDS"))
             /\ UNCHANGED <<loc, log>>
        ELSE IF w = "WalletError"
        THEN /\ Finish(t, Error("wallet", "RPC_WALLET_ERROR"))
             /\ UNCHANGED <<loc, log>>
        ELSE \E m \in Spendable(req[t].prop, req[t].denomination) :
             /\ loc' = [loc EXCEPT ![t].mint = m.key,
                                   ![t].payload = Payload(req[t], [loc[t] EXCEPT !.mint = m.key])]
             /\ log' = [log EXCEPT ![t] = Append(@, Ev("CreateSigmaSpend", m.key, 0, 0))]
             /\ Advance(t)
             /\ UNCHANGED <<cs_main, cs_wallet, overrideBy>>
    /\ UNCHANGED <<req, pending, mintStore, nextKey, txCount, payTxFee, offers, autoCommit, seen,
                   budget, changes>>

exodus_sendspend_marks_always(result, commit) == TRUE

exodus_sendspend_PendingAdd_subtracted_from_sender(r, mint, txid) ==
    PendingEntry(txid, r.from, "SIMPLE_SPEND", r.prop,
                 GetDenominationValue(mint.property, mint.denomination), TRUE)

\* PendingAdd(txid, "Spend", EXODUS_TYPE_SIMPLE_SPEND, propertyId,
\*            GetDenominationValue(mint.property, mint.denomination), false)
exodus_sendspend_PendingAdd(r, mint, txid) ==
    PendingEntry(txid, "Spend", "SIMPLE_SPEND", r.prop,
                 GetDenominationValue(mint.property, mint.denomination), FALSE)

\* Whether line 1731 (SetSigmaMintUsedTransaction) runs.
exodus_sendspend_marks(result, commit) == result = 0

exodus_sendspend_build(t) ==
    /\ At(t) = "WalletTxBuilder"
    /\ req[t].kind = "exodus_sendspend"
    /\ BuilderReady(t)
    /\ \E o \in BuilderOutcomes :
        LET result == BuilderResult(o)
            txid == BuilderTxid(o)
            marks == o # "throw" /\ exodus_sendspend_marks(result, autoCommit)
            adds == IF o # "throw" /\ PendingAddRuns(result, autoCommit)
                    THEN {exodus_sendspend_PendingAdd(
                              req[t], CHOOSE m \in mintStore : m.key = loc[t].mint, txid)}
                    ELSE {}
        IN /\ mintStore' = IF marks
                           THEN {IF m.key = loc[t].mint
                                 THEN [m EXCEPT !.used = TRUE, !.tx = txid] ELSE m : m \in mintStore}
                           ELSE mintStore
           /\ log' = [log EXCEPT ![t] =
                        Append(@, BuilderCall(t, o))
                        \o (IF marks THEN << Ev("SetSigmaMintUsedTransaction", loc[t].mint, txid, 0) >>
                            ELSE << >>)
                        \o PendingAdds(adds, txid)]
           /\ pending' = pending \cup adds
           /\ txCount' = IF txid # 0 THEN txid ELSE txCount
           /\ Finish(t, IF o = "throw" THEN Exception ELSE Reply(result, autoCommit, txid))
    /\ UNCHANGED <<req, loc, nextKey, payTxFee, offers, autoCommit, seen, budget, changes>>

\* ------------------------------------------------------- the specifications
Call(t) ==
    \/ exodus_sendrawtx(t)
    \/ exodus_send(t)
    \/ exodus_sendall(t)
    \/ exodus_senddexsell(t)
    \/ exodus_senddexaccept(t)
    \/ exodus_sendissuancecrowdsale(t)
    \/ exodus_sendissuancefixed(t)
    \/ exodus_sendissuancemanaged(t)
    \/ exodus_sendsto(t)
    \/ exodus_sendgrant(t)
    \/ exodus_sendrevoke(t)
    \/ exodus_sendclosecrowdsale(t)
    \/ exodus_sendtrade(t)
    \/ exodus_sendcanceltradesbyprice(t)
    \/ exodus_sendcanceltradesbypair(t)
    \/ exodus_sendcancelalltrades(t)
    \/ trade_MP(t)
    \/ exodus_sendchangeissuer(t)
    \/ exodus_sendenablefreezing(t)
    \/ exodus_senddisablefreezing(t)
    \/ exodus_sendfreeze(t)
    \/ exodus_sendunfreeze(t)
    \/ exodus_sendactivation(t)
    \/ exodus_senddeactivation(t)
    \/ exodus_sendalert(t)
    \/ exodus_sendcreatedenomination(t)
    \/ exodus_sendmint(t)
    \/ exodus_sendspend(t)

Step(t) ==
    \/ RunChecks(t)
    \/ WalletTxBuilder_return(t)
    \/ exodus_senddexaccept_getOffer(t)
    \/ exodus_senddexaccept_LOCK2(t)
    \/ exodus_senddexaccept_override(t)
    \/ exodus_senddexaccept_build(t)
    \/ Answer(t)

\* One RPC thread, every handler.
Next ==
    \E t \in {1} :
        \/ Call(t)
        \/ Step(t)
        \/ exodus_sendmint_create(t)
        \/ exodus_sendmint_build(t)
        \/ exodus_sendmint_rollback(t)
        \/ exodus_sendspend_create(t)
        \/ exodus_sendspend_build(t)
        \/ trade_MP_switch(t)

Spec == Init /\ [][Next]_vars

\* Every handler, with requests of the first address, of properties that
\* exist and of one or two commitments.
FairRequest(r) ==
    /\ r.from \in {"", "a1"} \/ r.kind = "exodus_senddexaccept"
    /\ r.ref = 0
    /\ r.supplied[1] \in {0, 5}
    /\ r.kind = "trade_MP" => r.params[2] = 1 /\ r.params[4] = 3
    /\ r.prop # NoProperty
    /\ r.desired # NoProperty
    /\ r.kind = "exodus_sendmint" =>
           r.denominations \in {<< <<0, 1>> >>, << <<0, 2>> >>}
NextFair ==
    \E t \in {1} :
        \/ Call(t) /\ FairRequest(req'[t])
        \/ Step(t)
        \/ exodus_sendmint_create(t)
        \/ exodus_sendmint_build(t)
        \/ exodus_sendmint_rollback(t)
        \/ exodus_sendspend_create(t)
        \/ exodus_sendspend_build(t)
        \/ trade_MP_switch(t)
\* The pipeline is synchronous and blocking: an invocation in progress goes on
\* to its next statement, and the build call returns.
Run == (\E t \in {1} : pc[t] > 0) /\ NextFair
InitFair == Init /\ mintStore # {}
SpecFair == InitFair /\ [][NextFair]_vars /\ WF_vars(Run)

\* Concurrent RPC threads running exchange accepts of the first seller's offer and
\* well-formed simple sends, in commit mode, while the ledger's offers change.
NextConc ==
    \/ \E t \in Threads :
        \/ exodus_senddexaccept(t) /\ req'[t].prop = 1 /\ req'[t].to = "a1" /\ ~req'[t].override
        \/ exodus_send(t) /\ req'[t].prop = 1 /\ req'[t].ref = 0 /\ req'[t].from = "a1"
        \/ Step(t)
    \/ DExOfferChange

SpecConc == InitConc /\ [][NextConc]_vars

\* Another caller lists the mints of the wallet (a balance query) and keeps
\* what it found.
ListSigmaMints ==
    /\ seen' = seen \cup {m.key : m \in mintStore}
    /\ seen' # seen
    /\ UNCHANGED <<pc, req, loc, out, log, pending, mintStore, nextKey, txCount, payTxFee,
                   overrideBy, offers, cs_main, cs_wallet, autoCommit, budget, changes>>

\* Concurrent RPC threads minting one or two commitments of the first
\* denomination while the wallet's mints are listed.
NextMint ==
    \/ \E t \in Threads :
        \/ exodus_sendmint(t) /\ req'[t].prop = 3 /\ req'[t].from = "a1"
                              /\ req'[t].denominations \in {<< <<0, 1>> >>, << <<0, 2>> >>}
                              /\ req'[t].minConfirms = 6
        \/ RunChecks(t)
        \/ exodus_sendmint_create(t)
        \/ exodus_sendmint_build(t)
        \/ exodus_sendmint_rollback(t)
        \/ Answer(t)
    \/ ListSigmaMints

InitMint == InitCommon /\ mintStore = {} /\ budget = MaxCalls /\ changes = 0

SpecMint == InitMint /\ [][NextMint]_vars

\* ------------------------------------------------------------ properties
Ended(t) == pc[t] = -1
CheckFailed(t) == Ended(t) /\ out[t].kind = "error" /\ out[t].stage = "check"
BuilderCalls(t) == Ops(log[t], "WalletTxBuilder")

\* C1: when a precondition check of a handler fails, the invocation ends with
\* that error without a call of the builder, without a pending effect, without
\* an operation on the mint store and without a write of the fee rate.
C1_CheckFailureHasNoEffect ==
    \A t \in {1} :
        CheckFailed(t) =>
            /\ log[t] = << >>
            /\ pending = loc[t].entryPending
            /\ mintStore = loc[t].entryMints
            /\ payTxFee = loc[t].entryFee

\* A mint request that fails its balance check, answered.
C1_Witness ==
    /\ CheckFailed(1)
    /\ req[1].kind = "exodus_sendmint"
    /\ out[1].code = RequireBalance(req[1].from, req[1].prop, exodus_sendmint_amount(req[1]))
    /\ out[1].code # OK

\* ---- mint rollback
\* A mint invocation has ended after its build call returned a non-zero result.
MintBuildFailed(t) ==
    Ended(t) /\ req[t].kind = "exodus_sendmint" /\ loc[t].result # 0
Erases(t) == Ops(log[t], "EraseSigmaMint")
Created(t) == {loc[t].ids[i] : i \in DOMAIN loc[t].ids}
Stored == {m.key : m \in mintStore}

\* C2: when the build call of a mint invocation that created N commitments
\* returns a non-zero result, exactly N erases are attempted: one for each
\* created identifier, none for another identifier, whether or not an erase
\* fails.
C2_RollbackErasesEachCreated ==
    \A t \in {1} :
        MintBuildFailed(t) =>
            /\ Len(Erases(t)) = Len(loc[t].ids)
            /\ \A id \in Created(t) :
                   Cardinality({i \in DOMAIN Erases(t) : Erases(t)[i].a = id}) = 1
            /\ \A i \in DOMAIN Erases(t) : Erases(t)[i].a \in Created(t)

\* Two commitments were created, the build failed, the first erase failed and
\* the second was still attempted.
C2_Witness ==
    /\ MintBuildFailed(1)
    /\ Len(loc[1].ids) >= 2
    /\ Len(Erases(1)) >= 2
    /\ Erases(1)[1].b = 0

\* C3 as stated: after a mint invocation whose build failed has returned its
\* error, the mint store holds none of the identifiers it created.
C3_StoreHoldsNoneOfCreated ==
    \A t \in {1} :
        MintBuildFailed(t) => Created(t) \cap Stored = {}

\* C3 amended: after a mint invocation whose build call returned a non-zero
\* result has returned its error, a created identifier is in the mint store
\* exactly when its erase failed.
C3_StoreHoldsOnlyFailedErases ==
    \A t \in {1} :
        MintBuildFailed(t) =>
            \A id \in Created(t) :
                id \in Stored <=>
                    \E i \in DOMAIN Erases(t) : Erases(t)[i].a = id /\ Erases(t)[i].b = 0

\* A rollback of two commitments one of whose erases failed: that one is
\* still stored, the other is gone.
C3_Witness ==
    /\ MintBuildFailed(1)
    /\ Cardinality(Created(1)) = 2
    /\ Cardinality(Created(1) \cap Stored) = 1

\* ---- spend
SpendBuilt(t) ==
    Ended(t) /\ req[t].kind = "exodus_sendspend" /\ BuilderCalls(t) # << >>
TheMint(t) == CHOOSE m \in mintStore : m.key = loc[t].mint

\* C4: the commitment a spend invocation consumes is marked used exactly when
\* its build call returned 0; after a failed build it is unmarked and a later
\* spend of the same property and denomination can choose it.
C4_MarkedIffBuildSucceeded ==
    \A t \in {1} :
        SpendBuilt(t) =>
            /\ TheMint(t).used <=> BuilderCalls(t)[1].a = 0
            /\ BuilderCalls(t)[1].a # 0 =>
                   TheMint(t) \in Spendable(req[t].prop, req[t].denomination)

\* A spend whose build failed: its commitment is still spendable.
C4_Witness ==
    /\ SpendBuilt(1)
    /\ out[1].kind = "error"
    /\ BuilderCalls(1)[1].a # 0
    /\ ~TheMint(1).used

\* C5: a spend marks its commitment used only after a successful commit, with
\* the id of the committed transaction; a dry-run spend marks nothing.
C5_MarkedOnlyAfterCommit ==
    \A t \in {1} :
        SpendBuilt(t) /\ TheMint(t).used =>
            /\ autoCommit
            /\ out[t].kind = "txid"
            /\ TheMint(t).tx = out[t].txid

\* ---- exchange accept
Accept(t) == req[t].kind = "exodus_senddexaccept"
\* The invocation has written the overriding rate into payTxFee.
Overrode(t) == Accept(t) /\ Ops(log[t], "payTxFee") # << >>
OverrideFee(t) == CFeeRate(loc[t].nMinimumAcceptFee, 225)

\* C6: when the build call of an exchange accept returns a result code, the
\* invocation leaves payTxFee at the value it had just before the override,
\* and the overriding rate, derived from the offer's minimum accept fee, is
\* in force for that single build call: the invocation writes the rate, calls
\* the builder once under it, and writes the former rate back.
C6_FeeRestoredWhenBuildReturns ==
    \A t \in Threads :
        Ended(t) /\ Overrode(t) /\ out[t].kind # "exception" =>
            /\ loc[t].exitFee = loc[t].feeBefore
            /\ Len(log[t]) = 3
            /\ log[t][1] = Ev("payTxFee", OverrideFee(t), 0, 0)
            /\ log[t][2].op = "WalletTxBuilder"
            /\ log[t][2].b = OverrideFee(t)
            /\ log[t][3] = Ev("payTxFee", loc[t].feeBefore, 0, 0)

\* An accept whose build returned an error code, the fee being back at the
\* default although the override differs from it.
C6_Witness ==
    /\ Ended(1)
    /\ Overrode(1)
    /\ out[1].kind = "error"
    /\ out[1].stage = "build"
    /\ OverrideFee(1) # loc[1].feeBefore
    /\ payTxFee = DefaultFee

\* C7: once an exchange accept has overridden payTxFee, the former rate is
\* back on every way the invocation ends, an exception of the build call
\* included.
C7_FeeRestoredOnEveryExit ==
    \A t \in {1} :
        Ended(t) /\ Overrode(t) => payTxFee = loc[t].feeBefore

C9_OfferUnchangedFromCheckToBuild ==
    \A t \in Threads :
        Accept(t) /\ At(t) = "WalletTxBuilder" =>
            DEx_getOffer(offers, req[t].to, req[t].prop) = loc[t].checked

\* ---- dry run
BuildSucceeded(t) ==
    Ended(t) /\ BuilderCalls(t) # << >> /\ BuilderCalls(t)[1].a = 0
       /\ out[t].kind # "exception"

\* C10: a dry-run invocation (autoCommit = false) whose build succeeds leaves
\* the pending set as it found it and returns the raw transaction hex.
C10_DryRunLeavesPending ==
    \A t \in {1} :
        BuildSucceeded(t) /\ ~autoCommit =>
            /\ pending = loc[t].entryPending
            /\ Ops(log[t], "PendingAdd") = << >>
            /\ out[t].kind = "rawHex"

\* A simple send built in dry-run mode.
C10_Witness ==
    /\ BuildSucceeded(1)
    /\ ~autoCommit
    /\ req[1].kind = "exodus_send"
    /\ out[1].kind = "rawHex"

\* ---- pending effects
Committed(t) == BuildSucceeded(t) /\ autoCommit
PendingType(kind) ==
    CASE kind = "exodus_send" -> "SIMPLE_SEND"
      [] kind = "exodus_sendsto" -> "SEND_TO_OWNERS"
      [] kind = "exodus_sendtrade" -> "METADEX_TRADE"
      [] OTHER -> ""

\* C11: a committed simple send, send-to-owners or trade whose build succeeded
\* adds exactly one pending entry: its key is the returned txid, its address
\* the sender, its property and amount the requested ones (for a trade the
\* property and amount for sale), and it subtracts from the balance.
C11_OnePendingEntryMatchesRequest ==
    \A t \in {1} :
        Committed(t) /\ req[t].kind \in {"exodus_send", "exodus_sendsto", "exodus_sendtrade"} =>
            /\ out[t].kind = "txid"
            /\ loc[t].entryPending \subseteq pending
            /\ pending \ loc[t].entryPending =
                   {PendingEntry(out[t].txid, req[t].from, PendingType(req[t].kind),
                                 req[t].prop, req[t].amount, TRUE)}
            /\ Len(Ops(log[t], "PendingAdd")) = 1

\* A committed trade of property 1 for property 3.
C11_Witness ==
    /\ Committed(1)
    /\ req[1].kind = "exodus_sendtrade"
    /\ req[1].prop # req[1].desired
    /\ \E e \in pending : e.txid = out[1].txid /\ e.prop = req[1].prop

\* C12: an invocation calls PendingAdd at most once, and only after its
\* WalletTxBuilder call has returned 0 with autoCommit set; an invocation
\* whose build returned a non-zero result inserts no pending effect.
C12_PendingAddOnceAfterCommit ==
    \A t \in {1} :
        /\ Len(Ops(log[t], "PendingAdd")) <= 1
        /\ \A i \in DOMAIN log[t] :
               log[t][i].op = "PendingAdd" =>
                   /\ autoCommit
                   /\ \E j \in 1..(i - 1) :
                          log[t][j].op = "WalletTxBuilder" /\ log[t][j].a = 0
        /\ BuilderCalls(t) # << >> /\ BuilderCalls(t)[1].a # 0 =>
               /\ Ops(log[t], "PendingAdd") = << >>
               /\ pending = loc[t].entryPending

\* A committed spend: the builder returned 0, then the pending effect was added.
C12_Witness ==
    /\ Committed(1)
    /\ req[1].kind = "exodus_sendspend"
    /\ Len(Ops(log[1], "PendingAdd")) = 1
    /\ pending # loc[1].entryPending

\* ---- exchange sell
\* An exchange sell with action NEW while its sender has an offer of the property.
SellNewOverOffer(t) ==
    /\ req[t].kind = "exodus_senddexsell"
    /\ req[t].action = CMPTransaction_NEW
    /\ DEx_getOffer(offers, req[t].from, req[t].prop).live

\* C13: an exchange sell with action NEW for an address and property that
\* already have an offer ends with the error of a precondition check and
\* makes no call of WalletTxBuilder.
C13_SellNewOverOfferRejected ==
    \A t \in {1} :
        SellNewOverOffer(t) =>
            /\ BuilderCalls(t) = << >>
            /\ pc[t] # -1 => At(t) = "checks"
            /\ Ended(t) => CheckFailed(t)

\* The sender has the balance and the property is a primary token: the
\* invocation is rejected by the offer check itself.
C13_Witness ==
    /\ SellNewOverOffer(1)
    /\ CheckFailed(1)
    /\ out[1].code = RequireNoOtherDExOffer(offers, req[1].from, req[1].prop)

\* ---- mint checks
Creates(t) == Ops(log[t], "CreateSigmaMint")
\* Some requested denomination has fewer than minConfirms confirmations.
UnderConfirmed(r) ==
    \E i \in DOMAIN r.denominations :
        /\ HasDenomination(r.prop, r.denominations[i][1])
        /\ getDenominationRemainingConfirmation(r.prop, r.denominations[i][1], r.minConfirms) # 0

\* C14: a mint invocation creates commitments only when the whole request has
\* passed its checks: the property exists and has the sigma feature, every
\* requested denomination has minConfirms confirmations and the sender's
\* balance covers the summed value.  If a requested denomination is
\* under-confirmed, no commitment is created, not even for the denominations
\* listed before it.
C14_MintsCreatedAfterAllChecks ==
    \A t \in {1} :
        req[t].kind = "exodus_sendmint" =>
            /\ Creates(t) # << >> =>
                   /\ RequireExistingProperty(req[t].prop) = OK
                   /\ RequireSigma(req[t].prop) = OK
                   /\ \A i \in DOMAIN req[t].denominations :
                          HasDenomination(req[t].prop, req[t].denominations[i][1])
                   /\ ~UnderConfirmed(req[t])
                   /\ RequireBalance(req[t].from, req[t].prop, exodus_sendmint_amount(req[t])) = OK
            /\ UnderConfirmed(req[t]) =>
                   /\ Creates(t) = << >>
                   /\ mintStore = loc[t].entryMints
                   /\ Ended(t) => CheckFailed(t)

\* A request of a confirmed denomination followed by an under-confirmed one,
\* from a sender with the balance, has ended without a commitment.
C14_Witness ==
    /\ req[1].kind = "exodus_sendmint"
    /\ Len(req[1].denominations) = 2
    /\ HasDenomination(req[1].prop, req[1].denominations[1][1])
    /\ getDenominationRemainingConfirmation(req[1].prop, req[1].denominations[1][1],
                                            req[1].minConfirms) = 0
    /\ UnderConfirmed(req[1])
    /\ RequireBalance(req[1].from, req[1].prop, exodus_sendmint_amount(req[1])) = OK
    /\ CheckFailed(1)
    /\ out[1].code = "confirmations of the denomination is less than required"
    /\ mintStore = loc[1].entryMints

\* C15: when the build call of a mint returns a non-zero result, the error
\* the invocation ends with is the one of the build and no pending effect is
\* inserted; an erase that fails during the rollback does not end the
\* invocation and does not change that error, and the remaining commitments
\* are still erased.
C15_BuildErrorSurvivesRollback ==
    \A t \in {1} :
        req[t].kind = "exodus_sendmint" /\ loc[t].result # 0 =>
            /\ ~Ended(t) => At(t) = "EraseSigmaMint"
            /\ Ended(t) =>
                   /\ out[t] = Error("build", "error_str")
                   /\ Len(Erases(t)) = Len(loc[t].ids)
            /\ Ops(log[t], "PendingAdd") = << >>
            /\ pending = loc[t].entryPending

\* The rollback's first erase failed, a later one succeeded, and the
\* invocation has ended with the build error.
C15_Witness ==
    /\ MintBuildFailed(1)
    /\ Len(Erases(1)) >= 2
    /\ Erases(1)[1].b = 0
    /\ Erases(1)[2].b = 1
    /\ out[1] = Error("build", "error_str")

ErasedIds(t) == [i \in DOMAIN Erases(t) |-> Erases(t)[i].a]
CreatedIds(t) == [i \in DOMAIN Creates(t) |-> Creates(t)[i].a]

\* C16: when the build call of a mint returns a non-zero result, the
\* commitments are erased in the reverse of the order of their creation: the
\* last created first, the first created last.
C16_RollbackInReverseOrder ==
    \A t \in {1} :
        req[t].kind = "exodus_sendmint" /\ loc[t].result # 0 =>
            /\ loc[t].ids = CreatedIds(t)
            /\ ErasedIds(t) = SubSeq(Reverse(CreatedIds(t)), 1, Len(Erases(t)))
            /\ Ended(t) => ErasedIds(t) = Reverse(CreatedIds(t))

\* Three commitments rolled back: the third was erased first, the first last.
C16_Witness ==
    /\ MintBuildFailed(1)
    /\ Len(CreatedIds(1)) = 3
    /\ ErasedIds(1)[1] = CreatedIds(1)[3]
    /\ ErasedIds(1)[3] = CreatedIds(1)[1]
    /\ CreatedIds(1)[1] # CreatedIds(1)[3]

\* C17: a mint invocation that created commitments and ends with an error at
\* or after its build call has attempted the erase of each of them, however
\* the build call failed, an exception of the call included.
C17_RollbackOnEveryBuildFailure ==
    \A t \in {1} :
        /\ Ended(t)
        /\ req[t].kind = "exodus_sendmint"
        /\ Creates(t) # << >>
        /\ BuilderCalls(t) # << >>
        /\ out[t].kind \in {"error", "exception"}
        => Len(Erases(t)) = Len(Creates(t))

\* ---- outcomes
\* The build call of the invocation returned 0.
BuildReturnedZero(t) == BuilderCalls(t) # << >> /\ BuilderCalls(t)[1].a = 0

\* C18: an invocation ends with an error that carries no transaction id, or
\* with the raw hex, exactly when its build succeeded without autoCommit, or
\* with the transaction id, exactly when its build succeeded with autoCommit.
C18_OneOutcome ==
    \A t \in {1} :
        Ended(t) =>
            /\ out[t].kind \in {"error", "exception", "rawHex", "txid"}
            /\ out[t].kind = "rawHex" <=> BuildReturnedZero(t) /\ ~autoCommit
            /\ out[t].kind = "txid" <=> BuildReturnedZero(t) /\ autoCommit
            /\ out[t].kind \in {"error", "exception"} <=> ~BuildReturnedZero(t)
            /\ out[t].kind # "txid" <=> out[t].txid = 0

\* A committed raw send has returned its transaction id.
C18_Witness ==
    /\ Ended(1)
    /\ req[1].kind = "exodus_sendrawtx"
    /\ autoCommit
    /\ out[1].kind = "txid"
    /\ out[1].txid # 0

\* The handlers that have no PendingAdd call.
KindsWithoutPending ==
    {"exodus_sendall", "exodus_sendrawtx", "exodus_senddexaccept",
     "exodus_sendissuancecrowdsale", "exodus_sendissuancefixed", "exodus_sendissuancemanaged",
     "exodus_sendgrant", "exodus_sendrevoke", "exodus_sendclosecrowdsale",
     "exodus_sendchangeissuer", "exodus_sendenablefreezing", "exodus_senddisablefreezing",
     "exodus_sendfreeze", "exodus_sendunfreeze", "exodus_sendactivation",
     "exodus_senddeactivation", "exodus_sendalert", "exodus_sendcreatedenomination"}

\* C19: a committed send-all, raw send, exchange accept, issuance, grant,
\* revoke, close-crowdsale, change-issuer, freezing switch, freeze, unfreeze,
\* activation, deactivation, alert or create-denomination leaves the pending
\* set as it found it.
C19_NoPendingForOtherActions ==
    \A t \in {1} :
        Committed(t) /\ req[t].kind \in KindsWithoutPending =>
            /\ out[t].kind = "txid"
            /\ Ops(log[t], "PendingAdd") = << >>
            /\ pending = loc[t].entryPending

\* A committed send-all.
C19_Witness ==
    /\ Committed(1)
    /\ req[1].kind = "exodus_sendall"
    /\ out[1].kind = "txid"
    /\ pending = loc[1].entryPending

\* ---- simple send
SendChecked(t) == req[t].kind = "exodus_send" /\ (Ended(t) \/ pc[t] > 1)

\* C20 as stated: a simple send is rejected before its build only by the
\* property check or, the property existing, by the balance check.
C20_SendRejectedByTwoChecksOnly ==
    \A t \in {1} :
        SendChecked(t) =>
            CheckFailed(t) <=>
                \/ RequireExistingProperty(req[t].prop) # OK
                \/ RequireBalance(req[t].from, req[t].prop, req[t].amount) # OK

\* C20 amended: the checks of a simple send are that the property exists,
\* that the sender's balance covers the amount and that the reference amount
\* is sane, in this order; the error is the one of the first check that
\* fails, and a send that passes the three reaches its build.
C20_SendRejectedByThreeChecks ==
    \A t \in {1} :
        SendChecked(t) =>
            LET exists == RequireExistingProperty(req[t].prop)
                balance == RequireBalance(req[t].from, req[t].prop, req[t].amount)
                sane == RequireSaneReferenceAmount(req[t].ref)
            IN /\ exists # OK => CheckFailed(t) /\ out[t].code = exists
               /\ exists = OK /\ balance # OK => CheckFailed(t) /\ out[t].code = balance
               /\ exists = OK /\ balance = OK /\ sane # OK =>
                      CheckFailed(t) /\ out[t].code = sane
               /\ exists = OK /\ balance = OK /\ sane = OK =>
                      /\ ~CheckFailed(t)
                      /\ Ended(t) => BuilderCalls(t) # << >>

\* A send of an existing property from a sender with the balance is rejected
\* for its reference amount.
C20_Witness ==
    /\ req[1].kind = "exodus_send"
    /\ RequireExistingProperty(req[1].prop) = OK
    /\ RequireBalance(req[1].from, req[1].prop, req[1].amount) = OK
    /\ CheckFailed(1)
    /\ out[1].code = RequireSaneReferenceAmount(req[1].ref)
    /\ log[1] = << >>

\* ---- order of the checks
\* The invocation is past its checks: rejected by one, or gone on.
Checked(t) == Ended(t) \/ pc[t] > 1
\* The invocation was rejected with the error e of a check.
RejectedWith(t, e) == CheckFailed(t) /\ out[t].code = e
\* The invocation passed every check.
Passed(t) == ~CheckFailed(t) /\ (Ended(t) => BuilderCalls(t) # << >>)

\* C21: a trade checks that the property for sale exists, that the property
\* desired exists, the balance, the ecosystems and the difference of the
\* ids, in this order, and ends with the error of the first check that fails.
C21_TradeFirstFailingCheck ==
    \A t \in {1} :
        req[t].kind = "exodus_sendtrade" /\ Checked(t) =>
            LET c1 == RequireExistingProperty(req[t].prop)
                c2 == RequireExistingProperty(req[t].desired)
                c3 == RequireBalance(req[t].from, req[t].prop, req[t].amount)
                c4 == RequireSameEcosystem(req[t].prop, req[t].desired)
                c5 == RequireDifferentIds(req[t].prop, req[t].desired)
            IN IF c1 # OK THEN RejectedWith(t, c1)
               ELSE IF c2 # OK THEN RejectedWith(t, c2)
               ELSE IF c3 # OK THEN RejectedWith(t, c3)
               ELSE IF c4 # OK THEN RejectedWith(t, c4)
               ELSE IF c5 # OK THEN RejectedWith(t, c5)
               ELSE Passed(t)

\* A property offered against itself by a sender without the balance: the
\* error is the one of the balance.
C21_Witness ==
    /\ req[1].kind = "exodus_sendtrade"
    /\ req[1].prop = req[1].desired
    /\ RequireDifferentIds(req[1].prop, req[1].desired) # OK
    /\ RequireBalance(req[1].from, req[1].prop, req[1].amount) # OK
    /\ RejectedWith(1, RequireBalance(req[1].from, req[1].prop, req[1].amount))


\* C22: the checks of a sell offer depend on its action. NEW: primary token,
\* balance for the amount supplied, no offer of the sender yet. UPDATE: primary
\* token, balance, a matching offer. CANCEL: primary token and a matching
\* offer only, whatever the balance. The error is the one of the first check
\* that fails; the payload of a CANCEL carries zero for the amounts, the
\* window and the fee whatever was supplied, the one of NEW and UPDATE carries
\* what was supplied.
C22_SellChecksByAction ==
    \A t \in {1} :
        req[t].kind = "exodus_senddexsell" /\ Checked(t) =>
            LET r == req[t]
                primary == RequirePrimaryToken(r.prop)
                balance == RequireBalance(r.from, r.prop, r.supplied[1])
                none == RequireNoOtherDExOffer(offers, r.from, r.prop)
                matching == RequireMatchingDExOffer(offers, r.from, r.prop)
                last == IF r.action = CMPTransaction_NEW THEN none ELSE matching
            IN /\ IF primary # OK THEN RejectedWith(t, primary)
                  ELSE IF r.action # CMPTransaction_CANCEL /\ balance # OK
                       THEN RejectedWith(t, balance)
                  ELSE IF last # OK THEN RejectedWith(t, last)
                  ELSE Passed(t)
               /\ BuilderCalls(t) # << >> =>
                      loc[t].payload.args =
                          IF r.action = CMPTransaction_CANCEL
                          THEN <<r.prop, 0, 0, 0, 0, r.action>>
                          ELSE <<r.prop>> \o r.supplied \o <<r.action>>

\* A sender cancels its offer, supplying an amount its balance does not
\* cover, a window and a fee: the request is built with zeros.
C22_Witness ==
    /\ req[1].kind = "exodus_senddexsell"
    /\ req[1].action = CMPTransaction_CANCEL
    /\ RequireBalance(req[1].from, req[1].prop, req[1].supplied[1]) # OK
    /\ req[1].supplied[3] # 0 /\ req[1].supplied[4] # 0
    /\ BuilderCalls(1) # << >>
    /\ loc[1].payload.args = <<req[1].prop, 0, 0, 0, 0, CMPTransaction_CANCEL>>


\* C23: an accept always checks the primary token and the matching offer of
\* (toAddress, property), in this order; the checks of the offer's fee and of
\* its payment window run exactly when override is false. The error is the
\* one of the first check that fails, and an accept with override = true of
\* an offer whose fee or window is unsafe goes on to its build.
C23_AcceptSafetyChecksUnlessOverride ==
    \A t \in {1} :
        req[t].kind = "exodus_senddexaccept" /\ Checked(t) =>
            LET r == req[t]
                primary == RequirePrimaryToken(r.prop)
                matching == RequireMatchingDExOffer(offers, r.to, r.prop)
                fee == RequireSaneDExFee(offers, r.to, r.prop)
                window == RequireSaneDExPaymentWindow(offers, r.to, r.prop)
            IN IF primary # OK THEN RejectedWith(t, primary)
               ELSE IF matching # OK THEN RejectedWith(t, matching)
               ELSE IF ~r.override /\ fee # OK THEN RejectedWith(t, fee)
               ELSE IF ~r.override /\ window # OK THEN RejectedWith(t, window)
               ELSE Passed(t)

\* An accept with override = true of an offer with an unsafe fee and an unsafe
\* window has called the builder.
C23_Witness ==
    /\ req[1].kind = "exodus_senddexaccept"
    /\ req[1].override
    /\ RequireSaneDExFee(offers, req[1].to, req[1].prop) # OK
    /\ RequireSaneDExPaymentWindow(offers, req[1].to, req[1].prop) # OK
    /\ BuilderCalls(1) # << >>


\* ---- the commitments of a mint
RECURSIVE SumCounts(_)
SumCounts(pairs) == IF pairs = << >> THEN 0 ELSE Head(pairs)[2] + SumCounts(Tail(pairs))
\* The mint invocation has run its creation of commitments.
MintCreated(t) ==
    req[t].kind = "exodus_sendmint" /\ ~CheckFailed(t) /\ (Ended(t) \/ pc[t] > 2)

\* C24: a mint creates as many commitments as the sum of the requested counts,
\* count of them for each denomination in the order of the request, all of
\* them before the call of the builder; the (denomination, public key) pairs
\* of the payload are as many and in the same order as the identifiers kept
\* for the rollback.
C24_MintCreatesRequestedCounts ==
    \A t \in {1} :
        /\ MintCreated(t) =>
            LET pairs == req[t].denominations
                first(i) == SumCounts(SubSeq(pairs, 1, i - 1))
            IN /\ Len(Creates(t)) = SumCounts(pairs)
               /\ \A i \in DOMAIN pairs :
                      \A j \in 1..pairs[i][2] : Creates(t)[first(i) + j].b = pairs[i][1]
               /\ loc[t].ids = CreatedIds(t)
               /\ Len(loc[t].mints) = Len(loc[t].ids)
               /\ \A i \in DOMAIN loc[t].ids :
                      loc[t].mints[i] = <<Creates(t)[i].b, loc[t].ids[i]>>
               /\ BuilderCalls(t) # << >> => loc[t].payload.args = <<req[t].prop, loc[t].mints>>
        /\ \A i, j \in DOMAIN log[t] :
               log[t][i].op = "CreateSigmaMint" /\ log[t][j].op = "WalletTxBuilder" => i < j
        /\ req[t].kind = "exodus_sendmint" /\ ~MintCreated(t) => Creates(t) = << >>

\* A request of one commitment of a denomination and two of another has
\* created the three and called the builder.
C24_Witness ==
    /\ MintCreated(1)
    /\ Len(req[1].denominations) = 2
    /\ req[1].denominations[1][2] = 1 /\ req[1].denominations[2][2] = 2
    /\ Len(Creates(1)) = 3
    /\ BuilderCalls(1) # << >>
    /\ Len(loc[1].payload.args[2]) = 3


\* ---- the parameters of a mint
\* The request names a denomination beyond 255 or unknown for the property,
\* or a count that is negative or beyond 255, or its face values sum up
\* beyond the largest amount.
MintBadParameter(r) ==
    \/ \E i \in DOMAIN r.denominations :
           \/ r.denominations[i][1] > 255
           \/ r.denominations[i][2] < 0
           \/ r.denominations[i][2] > 255
           \/ ~HasDenomination(r.prop, r.denominations[i][1])
    \/ SumDenominationsValue(r.prop, MintDenoms(r.denominations)) = Overflow
\* The request asks only for counts of 0, of confirmed denominations.
MintOfNothing(r) ==
    \A i \in DOMAIN r.denominations :
        /\ r.denominations[i][2] = 0
        /\ HasDenomination(r.prop, r.denominations[i][1])
        /\ getDenominationRemainingConfirmation(r.prop, r.denominations[i][1],
                                                r.minConfirms) = 0

\* C25: a mint request with a denomination id beyond 255, a count that is
\* negative or beyond 255, a denomination the property does not have or face
\* values whose sum overflows is rejected before the builder is called and
\* with the wallet's commitments untouched; when the property exists with the
\* sigma feature, so that the request's keys are looked at, the error is an
\* RPC_INVALID_PARAMETER one.  A count of 0 is accepted and no commitment is
\* created for it.
C25_MintBadParameterRejected ==
    \A t \in {1} :
        req[t].kind = "exodus_sendmint" /\ Checked(t) =>
            /\ MintBadParameter(req[t]) =>
                   /\ CheckFailed(t)
                   /\ log[t] = << >>
                   /\ mintStore = loc[t].entryMints
                   /\ pending = loc[t].entryPending
                   /\ RequireExistingProperty(req[t].prop) = OK /\ RequireSigma(req[t].prop) = OK
                          => JSONRPCErrorCode(out[t].code) = "RPC_INVALID_PARAMETER"
            /\ RequireExistingProperty(req[t].prop) = OK /\ RequireSigma(req[t].prop) = OK
               /\ MintOfNothing(req[t]) =>
                   /\ Passed(t)
                   /\ Creates(t) = << >>
            /\ \A i \in DOMAIN req[t].denominations :
                   req[t].denominations[i][2] = 0 =>
                       \A j \in DOMAIN Creates(t) :
                           Creates(t)[j].b # req[t].denominations[i][1]

\* Two commitments of the denomination worth more than half of the largest
\* amount were asked for: the request is rejected for the overflow.
C25_Witness ==
    /\ req[1].kind = "exodus_sendmint"
    /\ \A i \in DOMAIN req[1].denominations :
           /\ HasDenomination(req[1].prop, req[1].denominations[i][1])
           /\ req[1].denominations[i][2] \in 0..255
    /\ SumDenominationsValue(req[1].prop, MintDenoms(req[1].denominations)) = Overflow
    /\ RejectedWith(1, "overflow_error")


\* The sum of the face values of the commitments the events create.
RECURSIVE FaceValue(_, _)
FaceValue(p, events) ==
    IF events = << >> THEN 0
    ELSE GetDenominationValue(p, Head(events).b) + FaceValue(p, Tail(events))

\* C26: a committed mint inserts exactly one pending effect: of the sender,
\* of the minted property, subtracted from the balance, and of the sum of the
\* face values of the commitments created, which the sender's balance was
\* checked to cover.
C26_MintPendingIsFaceValue ==
    \A t \in {1} :
        Committed(t) /\ req[t].kind = "exodus_sendmint" =>
            /\ loc[t].entryPending \subseteq pending
            /\ pending \ loc[t].entryPending =
                   {PendingEntry(out[t].txid, req[t].from, "SIMPLE_MINT", req[t].prop,
                                 FaceValue(req[t].prop, Creates(t)), TRUE)}
            /\ Len(Ops(log[t], "PendingAdd")) = 1
            /\ RequireBalance(req[t].from, req[t].prop, FaceValue(req[t].prop, Creates(t))) = OK
            /\ Len(Creates(t)) = SumCounts(req[t].denominations)

\* A committed mint of three commitments, of two face values.
C26_Witness ==
    /\ Committed(1)
    /\ req[1].kind = "exodus_sendmint"
    /\ Len(Creates(1)) = 3
    /\ Creates(1)[1].b # Creates(1)[2].b
    /\ \E e \in pending : e.txid = out[1].txid /\ e.amount = 50


\* C27: after a mint whose build call returned 0, with or without autoCommit,
\* every commitment it created is in the wallet's store and no erase was
\* attempted.
C27_MintsKeptAfterBuild ==
    \A t \in {1} :
        req[t].kind = "exodus_sendmint" /\ BuildReturnedZero(t) =>
            /\ Ended(t)
            /\ \A i \in DOMAIN Creates(t) :
                   Mint(Creates(t)[i].a, req[t].prop, Creates(t)[i].b) \in mintStore
            /\ Created(t) \subseteq Stored
            /\ Erases(t) = << >>
            /\ out[t].kind = IF autoCommit THEN "txid" ELSE "rawHex"

\* A mint of three commitments built without autoCommit: the raw transaction
\* is returned and the three are in the store.
C27_Witness ==
    /\ req[1].kind = "exodus_sendmint"
    /\ BuildReturnedZero(1)
    /\ ~autoCommit
    /\ Len(Creates(1)) = 3
    /\ Cardinality({m \in mintStore : m.key \in Created(1)}) = 3


\* ---- the proof of a spend
Spends(t) == Ops(log[t], "CreateSigmaSpend")
Marks(t) == Ops(log[t], "SetSigmaMintUsedTransaction")
\* The invocation ended with an error of the wallet.
WalletFailed(t) == Ended(t) /\ out[t].kind = "error" /\ out[t].stage = "wallet"

\* C28: a spend that calls the builder has created exactly one spend proof
\* before, after its checks of the property, of the denomination and of the
\* reference amount passed, and the commitment it marks used is the one the
\* proof consumed; a spend whose proof creation fails ends with an error of
\* the wallet (insufficient funds or wallet error) without a call of the
\* builder and without a commitment marked used.
C28_SpendProofBeforeBuild ==
    \A t \in {1} :
        req[t].kind = "exodus_sendspend" =>
            /\ Len(Spends(t)) <= 1
            /\ Spends(t) # << >> \/ BuilderCalls(t) # << >> =>
                   /\ RequireExistingProperty(req[t].prop) = OK
                   /\ RequireExistingDenomination(req[t].prop, req[t].denomination) = OK
                   /\ RequireSaneReferenceAmount(req[t].ref) = OK
            /\ \A j \in DOMAIN log[t] :
                   log[t][j].op = "WalletTxBuilder" =>
                       /\ Len(Spends(t)) = 1
                       /\ \E i \in 1..(j - 1) : log[t][i].op = "CreateSigmaSpend"
            /\ \A i \in DOMAIN Marks(t) :
                   /\ Marks(t)[i].a = Spends(t)[1].a
                   /\ TheMint(t).key = Spends(t)[1].a
                   /\ TheMint(t).property = req[t].prop
                   /\ TheMint(t).denomination = req[t].denomination
            /\ Ended(t) /\ ~CheckFailed(t) /\ Spends(t) = << >> =>
                   /\ WalletFailed(t)
                   /\ out[t].code \in {"RPC_WALLET_INSUFFICIENT_FUNDS", "RPC_WALLET_ERROR"}
            /\ WalletFailed(t) =>
                   /\ BuilderCalls(t) = << >>
                   /\ Marks(t) = << >>
                   /\ mintStore = loc[t].entryMints

\* A spend that created its proof, was built and marked the commitment used.
C28_Witness ==
    /\ req[1].kind = "exodus_sendspend"
    /\ BuilderCalls(1) # << >>
    /\ Len(Spends(1)) = 1
    /\ Len(Marks(1)) = 1
    /\ TheMint(1).used


\* C29: a create-denomination checks that the property exists, that the
\* sender is its issuer, that it has the sigma feature, that it holds fewer
\* than MAX_DENOMINATIONS denominations and that none of them has the value,
\* in this order, and ends with the error of the first check that fails: a
\* value the property already has, asked of a full property, is answered
\* with the error of the room.  A request that passes the five goes on to
\* its build.
C29_CreateDenominationChecks ==
    \A t \in {1} :
        req[t].kind = "exodus_sendcreatedenomination" /\ Checked(t) =>
            LET p == req[t].prop
                c1 == RequireExistingProperty(p)
                c2 == RequireTokenIssuer(req[t].from, p)
                c3 == RequireSigma(p)
                full == Len(my_sps[p].denominations) >= MAX_DENOMINATIONS
                present == \E i \in DOMAIN my_sps[p].denominations :
                               my_sps[p].denominations[i] = req[t].value
            IN IF c1 # OK THEN RejectedWith(t, c1)
               ELSE IF c2 # OK THEN RejectedWith(t, c2)
               ELSE IF c3 # OK THEN RejectedWith(t, c3)
               ELSE IF full THEN RejectedWith(t, "No more room for new denomination")
               ELSE IF present THEN RejectedWith(t, "Denomination with value already exists")
               ELSE Passed(t)

\* The issuer asks a full property for a value it already has.
C29_Witness ==
    /\ req[1].kind = "exodus_sendcreatedenomination"
    /\ RequireTokenIssuer(req[1].from, req[1].prop) = OK
    /\ Len(my_sps[req[1].prop].denominations) >= MAX_DENOMINATIONS
    /\ req[1].value \in Range(my_sps[req[1].prop].denominations)
    /\ RejectedWith(1, "No more room for new denomination")

\* C30: grant and revoke check that the property exists, that it is managed
\* and that the sender is its issuer, in this order; revoke then checks that
\* the sender's balance covers the amount, grant does not: a grant that
\* passes the three goes on to its build whatever the balance.
C30_GrantAndRevokeChecks ==
    \A t \in {1} :
        req[t].kind \in {"exodus_sendgrant", "exodus_sendrevoke"} /\ Checked(t) =>
            LET c1 == RequireExistingProperty(req[t].prop)
                c2 == RequireManagedProperty(req[t].prop)
                c3 == RequireTokenIssuer(req[t].from, req[t].prop)
                c4 == RequireBalance(req[t].from, req[t].prop, req[t].amount)
            IN IF c1 # OK THEN RejectedWith(t, c1)
               ELSE IF c2 # OK THEN RejectedWith(t, c2)
               ELSE IF c3 # OK THEN RejectedWith(t, c3)
               ELSE IF req[t].kind = "exodus_sendrevoke" /\ c4 # OK THEN RejectedWith(t, c4)
               ELSE Passed(t)

\* The issuer grants more than its balance and the builder is called.
C30_Witness ==
    /\ req[1].kind = "exodus_sendgrant"
    /\ RequireBalance(req[1].from, req[1].prop, req[1].amount) # OK
    /\ BuilderCalls(1) # << >>


\* ---- readers of the mint store
\* The mint with key k was removed by an erase of thread t's rollback.
ErasedBy(t, k) == \E i \in DOMAIN Erases(t) : Erases(t)[i].a = k /\ Erases(t)[i].b = 1

\* C31: the commitments of a mint are in the wallet's store, where every
\* reader finds them, from their creation on: while the build is awaited and
\* during the rollback each of them is in the store until its own erase
\* removes it, in a step of its own: a commitment leaves the store, under the
\* eyes of a reader that found it, only by an erase of a rollback.
C31_CreatedVisibleUntilErased ==
    /\ [](\A t \in Threads :
             MintCreated(t) =>
                 \A i \in DOMAIN loc[t].ids :
                     loc[t].ids[i] \in Stored \/ ErasedBy(t, loc[t].ids[i]))
    /\ [][\A k \in Stored \ Stored' :
             \E t \in Threads :
                 /\ At(t) = "EraseSigmaMint"
                 /\ log'[t] = Append(log[t], Ev("EraseSigmaMint", k, 1, 0))
                 /\ mintStore' = {m \in mintStore : m.key # k}
                 /\ seen' = seen]_vars

\* A reader has found a commitment of a mint whose build then failed and
\* whose rollback erased it.
C31_Witness ==
    \E t \in Threads :
        /\ req[t].kind = "exodus_sendmint"
        /\ MintBuildFailed(t)
        /\ \E i \in DOMAIN loc[t].ids :
               /\ loc[t].ids[i] \in seen
               /\ loc[t].ids[i] \notin Stored
               /\ ErasedBy(t, loc[t].ids[i])


\* ---- concurrent exchange accepts
\* The fee rate is the one the threads found, or it is the rate the invocation
\* whose override is in force has saved.
FeeAtRest ==
    IF overrideBy = 0 THEN payTxFee = DefaultFee
    ELSE loc[overrideBy].payTxFeeOriginal = DefaultFee
\* The step is a build call that raises an exception.
BuildThrows == \E t \in Threads : out'[t] = Exception /\ out[t] # Exception

\* C32: with concurrent exchange accepts whose build calls return, the fee
\* rate is the initial one whenever no override is in force, so also after
\* all of them have ended: an invocation overrides only when no other override
\* is in force, saves the initial rate as its original, and its restore
\* brings the initial rate back.
C32_ConcurrentAcceptsRestoreFee ==
    [][FeeAtRest /\ ~BuildThrows =>
          /\ FeeAtRest'
          /\ \A t \in Threads :
                 overrideBy' = t /\ overrideBy # t =>
                     /\ overrideBy = 0
                     /\ loc'[t].payTxFeeOriginal = DefaultFee
          /\ \A t \in Threads :
                 overrideBy = t /\ overrideBy' # t => payTxFee' = DefaultFee]_vars

\* Two accepts have run to their ends at the same time, each one overrode
\* the rate and saw its build return, and the rate is the initial one.
C32_Witness ==
    /\ \A t \in {1, 2} :
           /\ Ended(t)
           /\ Overrode(t)
           /\ out[t].kind # "exception"
           /\ OverrideFee(t) # DefaultFee
    /\ payTxFee = DefaultFee


\* The invocation is at the second lookup of the offer, which is gone.
OfferGone(t) ==
    /\ At(t) = "DEx_getOffer"
    /\ ~DEx_getOffer(offers, req[t].to, req[t].prop).live
UnableToLoad == "Unable to load sell offer from the distributed exchange"

\* C33: an exchange accept whose offer passed the checks but is gone at the
\* second lookup ends with the type error "Unable to load sell offer", without
\* a call of the builder and without a write of the fee rate.
C33_OfferGoneAtLookup ==
    /\ [](\A t \in Threads :
             RejectedWith(t, UnableToLoad) =>
                 /\ Accept(t)
                 /\ JSONRPCErrorCode(out[t].code) = "RPC_TYPE_ERROR"
                 /\ loc[t].checked.live
                 /\ BuilderCalls(t) = << >>
                 /\ Ops(log[t], "payTxFee") = << >>)
    /\ [][\A t \in Threads :
             OfferGone(t) /\ pc'[t] # pc[t] =>
                 /\ out'[t] = Error("check", UnableToLoad)
                 /\ Ended(t)'
                 /\ payTxFee' = payTxFee
                 /\ log' = log]_vars
C33_Witness ==
    \E t \in Threads :
        /\ RejectedWith(t, UnableToLoad)
        /\ loc[t].checked.live
        /\ ~DEx_getOffer(offers, req[t].to, req[t].prop).live


CancelKinds ==
    {"exodus_sendcanceltradesbyprice", "exodus_sendcanceltradesbypair",
     "exodus_sendcancelalltrades"}
\* The pending effects inserted under the transaction id the invocation returned.
PendingOf(t) == {e \in pending : e.txid = out[t].txid}

\* C34: a committed exchange sell inserts one pending effect of the sender and
\* of the property for sale: with the amount for sale and subtracted when the
\* action is NEW or UPDATE, with the amount 0 and not subtracted when it is
\* CANCEL.  A committed cancel of trades, by price, by pair or of an ecosystem,
\* inserts one pending effect that is not subtracted.
C34_SellAndCancelPending ==
    \A t \in {1} :
        Committed(t) =>
            /\ req[t].kind \in CancelKinds \cup {"exodus_senddexsell"} =>
                  PendingOf(t) = pending \ loc[t].entryPending
            /\ req[t].kind = "exodus_senddexsell" =>
                  /\ Cardinality(PendingOf(t)) = 1
                  /\ \A e \in PendingOf(t) :
                        /\ e.address = req[t].from
                        /\ e.prop = req[t].prop
                        /\ e.type = "TRADE_OFFER"
                        /\ req[t].action \in {CMPTransaction_NEW, CMPTransaction_UPDATE} =>
                              e.amount = req[t].supplied[1] /\ e.subtract
                        /\ req[t].action = CMPTransaction_CANCEL =>
                              e.amount = 0 /\ ~e.subtract
            /\ req[t].kind \in CancelKinds =>
                  /\ Cardinality(PendingOf(t)) = 1
                  /\ \A e \in PendingOf(t) : e.address = req[t].from /\ ~e.subtract
C34_Witness ==
    \E t \in {1} :
        /\ Committed(t)
        /\ req[t].kind = "exodus_senddexsell"
        /\ req[t].action = CMPTransaction_CANCEL
        /\ req[t].supplied[1] = 5
        /\ \E e \in PendingOf(t) : e.amount = 0 /\ ~e.subtract


\* The position of the first event of operation op in the log of thread t.
FirstOp(t, op) == CHOOSE i \in DOMAIN log[t] : log[t][i].op = op /\ \A j \in 1..(i - 1) : log[t][j].op # op

\* C35: a committed spend inserts exactly one pending effect: labelled "Spend",
\* of the face value of the denomination of the commitment it consumed, not
\* subtracted, and inserted after that commitment was marked used.
C35_SpendPending ==
    \A t \in {1} :
        Committed(t) /\ req[t].kind = "exodus_sendspend" =>
            /\ Len(Ops(log[t], "PendingAdd")) = 1
            /\ Len(Marks(t)) = 1
            /\ FirstOp(t, "SetSigmaMintUsedTransaction") < FirstOp(t, "PendingAdd")
            /\ TheMint(t).used
            /\ Cardinality(pending \ loc[t].entryPending) = 1
            /\ \A e \in pending \ loc[t].entryPending :
                   /\ e.txid = out[t].txid
                   /\ e.address = "Spend"
                   /\ e.prop = req[t].prop
                   /\ e.amount = my_sps[TheMint(t).property].denominations[TheMint(t).denomination + 1]
                   /\ ~e.subtract
C35_Witness ==
    \E t \in {1} :
        /\ Committed(t)
        /\ req[t].kind = "exodus_sendspend"
        /\ TheMint(t).used
        /\ \E e \in pending : e.txid = out[t].txid /\ e.address = "Spend" /\ e.amount = 10


\* The ecosystem of both properties, 0 when they are of different ecosystems.
CommonEcosystem(p, q) == IF my_sps[p].eco = my_sps[q].eco THEN my_sps[p].eco ELSE 0

\* C36: trade_MP forwards by action: ADD to the trade handler and
\* CANCEL_AT_PRICE to the cancel-by-price handler with its first five
\* parameters, CANCEL_ALL_FOR_PAIR to the cancel-by-pair handler with the
\* sender, the property for sale and the property desired, CANCEL_EVERYTHING
\* to the cancel-all handler with the sender and the ecosystem 1 when both
\* properties are of the main ecosystem, 2 when both are of the test
\* ecosystem, 0 otherwise; any other action ends with a type error, without
\* a call of the builder.
C36_TradeMPForwards ==
    /\ [](\A t \in {1} :
             req[t].kind = "trade_MP" /\ Ended(t) =>
                 /\ req[t].params[6] \notin 1..4
                 /\ out[t].kind = "error"
                 /\ JSONRPCErrorCode(out[t].code) = "RPC_TYPE_ERROR"
                 /\ log[t] = << >>
                 /\ pending = loc[t].entryPending)
    /\ [][\A t \in {1} :
             At(t) = "switch" /\ (req'[t] # req[t] \/ pc'[t] # pc[t]) =>
                 LET p == req[t].params
                     r == req'[t]
                 IN /\ p[6] = 1 =>
                         /\ r.kind = "exodus_sendtrade"
                         /\ r.values = << p[1], p[2], p[3], p[4], p[5] >>
                         /\ << r.from, r.prop, r.amount, r.desired >> = << p[1], p[2], p[3], p[4] >>
                    /\ p[6] = 2 =>
                         /\ r.kind = "exodus_sendcanceltradesbyprice"
                         /\ r.values = << p[1], p[2], p[3], p[4], p[5] >>
                         /\ << r.from, r.prop, r.amount, r.desired >> = << p[1], p[2], p[3], p[4] >>
                    /\ p[6] = 3 =>
                         /\ r.kind = "exodus_sendcanceltradesbypair"
                         /\ r.values = << p[1], p[2], p[4] >>
                         /\ << r.from, r.prop, r.desired >> = << p[1], p[2], p[4] >>
                    /\ p[6] = 4 =>
                         /\ r.kind = "exodus_sendcancelalltrades"
                         /\ r.values = << p[1], CommonEcosystem(p[2], p[4]) >>
                         /\ << r.from, r.ecosystem >> = << p[1], CommonEcosystem(p[2], p[4]) >>
                    /\ p[6] \in 1..4 => pc'[t] = 1 /\ out'[t] = out[t] /\ log'[t] = << >>
                    /\ p[6] \notin 1..4 => Ended(t)' /\ r = req[t]]_vars
\* A CANCEL_EVERYTHING of a main and a test property, forwarded with ecosystem 0.
C36_Witness ==
    \E t \in {1} :
        /\ req[t].kind = "exodus_sendcancelalltrades"
        /\ req[t].params # << >>
        /\ my_sps[req[t].params[2]].eco # my_sps[req[t].params[4]].eco
        /\ req[t].ecosystem = 0


\* Some invocation in progress can take its next step.
Progress == \E t \in Threads : pc[t] > 0 /\ Step(t)
Holds(t) == cs_main = t \/ cs_wallet = t

\* C37: the invocations cannot deadlock on cs_main and the wallet lock: while
\* any is in progress one of them can step; an invocation holds neither lock
\* when it comes to LOCK2 or to a step that takes cs_main alone, it holds the
\* wallet lock only together with cs_main, and it holds no lock once it has
\* ended, with a result or with an error.
C37_NoDeadlockOnLocks ==
    /\ (\E t \in Threads : pc[t] > 0) => ENABLED Progress
    /\ \A t \in Threads :
        /\ At(t) \in {"checks", "DEx_getOffer"} => ~Holds(t)
        /\ At(t) = "LOCK2" => cs_wallet # t
        /\ cs_wallet = t => cs_main = t
        /\ Holds(t) => At(t) \in {"LOCK2", "payTxFee", "WalletTxBuilder"}
        /\ pc[t] \in {0, -1} => ~Holds(t)
\* One accept holds cs_main and is about to take the wallet lock while the
\* other waits for cs_main.
C37_Witness ==
    \E t, u \in Threads :
        /\ t # u
        /\ At(t) = "LOCK2" /\ cs_main = t /\ cs_wallet = 0
        /\ At(u) \in {"DEx_getOffer", "LOCK2"}


\* C38: provided the build call returns, an invocation in progress ends with
\* a result or an error; no step of it goes back to an earlier statement, it
\* calls WalletTxBuilder at most once, and the rollback of a mint erases once
\* per created commitment and then ends.
C38_InvocationsEndWithoutRetry ==
    /\ \A t \in {1} : (pc[t] > 0) ~> (Ended(t) /\ out[t].kind # "none")
    /\ [](\A t \in {1} :
             /\ Len(BuilderCalls(t)) <= 1
             /\ Len(Erases(t)) <= Len(loc[t].ids)
             /\ MintBuildFailed(t) =>
                    /\ Len(Erases(t)) = Len(loc[t].ids)
                    /\ \A i \in DOMAIN loc[t].ids :
                           Len(SelectSeq(Erases(t), LAMBDA e : e.a = loc[t].ids[i])) = 1)
    /\ [][\A t \in {1} :
             pc[t] > 0 /\ << pc[t], req[t], loc[t], log[t] >>' # << pc[t], req[t], loc[t], log[t] >> =>
                 \/ pc'[t] > pc[t]
                 \/ Ended(t)'
                 \/ /\ At(t) = "EraseSigmaMint"
                    /\ loc'[t].todo = Tail(loc[t].todo)
                 \/ /\ req[t].kind = "trade_MP"
                    /\ req'[t].kind \notin {"trade_MP", "none"}]_vars
\* A mint whose build failed has erased its two commitments and ended.
C38_Witness ==
    \E t \in {1} :
        /\ MintBuildFailed(t)
        /\ Len(loc[t].ids) = 2
        /\ Len(Erases(t)) = 2
        /\ Len(BuilderCalls(t)) = 1


FeatureKinds == {"exodus_sendactivation", "exodus_senddeactivation"}
\* The expiry value of an alert request is within [1, 4294967295].
ExpiryInRange(r) == r.expiryHigh = 0 /\ r.expiryLow >= 1
AlertInRange(r) == r.alertType \in 1..65535 /\ ExpiryInRange(r)

\* C39: an activation or a deactivation is never rejected for its feature id
\* and encodes in its payload the id modulo 65536; an alert whose alert type
\* is outside [1, 65535] or whose expiry value is outside [1, 4294967295] ends
\* with an invalid-parameter error before the build, and no other alert does.
C39_FeatureIdNarrowedAlertChecked ==
    \A t \in {1} :
        /\ req[t].kind \in FeatureKinds =>
              /\ ~CheckFailed(t)
              /\ BuilderCalls(t) # << >> =>
                    /\ Len(loc[t].payload.args) = 1
                    /\ loc[t].payload.args[1] \in 0..65535
                    /\ (req[t].featureId - loc[t].payload.args[1]) % 65536 = 0
        /\ req[t].kind = "exodus_sendalert" /\ Checked(t) =>
              /\ ~AlertInRange(req[t]) =>
                    /\ CheckFailed(t)
                    /\ JSONRPCErrorCode(out[t].code) = "RPC_INVALID_PARAMETER"
                    /\ out[t].code = IF req[t].alertType \notin 1..65535
                                     THEN "Alert type is out of range"
                                     ELSE "Expiry value is out of range"
                    /\ BuilderCalls(t) = << >>
              /\ AlertInRange(req[t]) => ~CheckFailed(t)
\* An activation of feature 65537 was built with the id 1 in its payload.
C39_Witness ==
    \E t \in {1} :
        /\ req[t].kind = "exodus_sendactivation"
        /\ req[t].featureId = 65537
        /\ BuilderCalls(t) # << >>
        /\ loc[t].payload.args = << 1 >>

====
